---- MODULE Spec2Model ----
(***************************************************************************)
(* Model of the PLI protocol driver of the solar-monitoring repository.    *)
(*                                                                         *)
(* Spec models the event-driven driver `PLIDriver` of the complete driver  *)
(* file (constructor, _connect, _scheduleReconnect, read, its timeout      *)
(* timer, _processResponses, disconnect) together with the CircularBuffer  *)
(* it requires, the TCP socket it owns and the peer that answers the       *)
(* commands.  Every callback of the driver is one action: Node.js runs     *)
(* each callback to completion before the next one starts.                 *)
(*                                                                         *)
(* SpecB models the PLIDriver of src/driver/pli-driver.js, which is        *)
(* connected by its caller's connect() and keeps the flag isConnected.     *)
(* It uses the same sockets and the same CircularBuffer; SpecBFair adds    *)
(* the fairness of the event loop.                                         *)
(*                                                                         *)
(* SpecTest adds test() and a link on which a status byte may precede a    *)
(* Data frame; its connection stays up.  SpecGw models the two gateway     *)
(* sketches, one iteration of loop() per step.                             *)
(*                                                                         *)
(* SpecFn applies the functions of the drivers and of the protocol         *)
(* document that compute a result from their arguments alone (the command  *)
(* builder, readBatch over the outcomes of its reads, the accessors'       *)
(* decoding of a raw byte, the history offset, parseDayRecord and          *)
(* readHistory) to inputs drawn from bounded sets.                         *)
(*                                                                         *)
(* SpecBatch runs one readBatch() or getAll() on the driver of Spec, on a  *)
(* connection that stays up.  SpecBuf calls the methods of the             *)
(* CircularBuffer classes on a buffer of their own, and SpecSrv models     *)
(* the TCP server the gateway connects to, one event handler per step.     *)
(***************************************************************************)
EXTENDS Integers, Sequences, FiniteSets, TLC

(***************************************************************************)
(* Bounds of the model.                                                    *)
(***************************************************************************)
MaxReads == 2       \* read() calls in one behaviour
MaxSockets == 2     \* sockets created by _connect() in one behaviour
MaxTests == 1       \* test() calls in one behaviour

(***************************************************************************)
(* Protocol constants.                                                     *)
(***************************************************************************)
PREFIX == 200
READ_RAM == 20
ERR_LO == 128
ERR_HI == 136
READ_EEPROM == 72
WRITE_RAM == 152
WRITE_EEPROM == 202
LOOPBACK == 183
BUTTON == 87
LOOPBACK_OK == 128          \* the reply to the loopback command
NOISE == 5                  \* a status byte of the link outside 0x80..0x88
TestDelay == 1000           \* the delay of the timer of test() (ms)

Addrs == {50, 52}           \* addresses the caller reads
Vals == {7, 138}            \* contents the device RAM may hold
Timeouts == {1}             \* timeout arguments the caller passes (ms)
Elapsed == {0, 1}           \* milliseconds that pass between two calls of the caller
Randoms == {0, 1}           \* values Math.random() adds to a request id
Null == -1                  \* JavaScript null (no byte / no socket)

\* Capacity of the driver's CircularBuffer.  The driver allocates 1024 bytes,
\* which the replies of its reads never fill; the model keeps that relation.
DriverBufSize == 3 * MaxReads + MaxTests + 2

\* the longest chunk a 'data' event delivers
MaxChunk == 3 * MaxReads + MaxTests

VARIABLES
    sockets,         \* every net.Socket created so far, in creation order
    socket,          \* this.socket: index into sockets, or Null
    reconnectTimer,  \* this.reconnectTimer is set (not null)
    rtimers,         \* reconnect timeouts armed in the Node timer queue
    buffer,          \* this.buffer: the CircularBuffer
    pending,         \* this.pending: the Map, in insertion order
    reqs,            \* every read() call made so far and its promise
    now,             \* Date.now()
    ram,             \* contents of the device RAM
    disconnectCalled, \* disconnect() has been called
    isConnected,     \* this.isConnected (pli-driver.js)
    connects,        \* every connect() call made so far and its promise
    exited,          \* the Node process has ended on an uncaught exception
    inp,             \* the function applied and its arguments (SpecFn)
    out,             \* whether it has returned, and what
    tests,           \* every test() call made so far and its promise
    emitted,         \* the codes of the 'error' events _processResponses emitted
    delivered,       \* loopback replies delivered in 'data' events so far
    gw,              \* the gateway sketch: its globals, its clock and its two links
    cb,              \* a CircularBuffer on its own, and what was written and read
    srv              \* the TCP server: its sockets and its globals

vars == <<sockets, socket, reconnectTimer, rtimers, buffer, pending, reqs,
          now, ram, disconnectCalled, isConnected, connects, exited, inp, out,
          tests, emitted, delivered, gw, cb, srv>>

\* the state of test() and what the 'data' handler has reported
evars == <<tests, emitted, delivered>>

\* the state of the gateway
gvars == <<gw>>

\* the state of the buffer on its own and of the TCP server
ovars == <<cb, srv>>

\* neither is part of the behaviour
NoBuffer == [kind |-> "none"]
NoServer == [running |-> "none"]

\* no gateway is part of the behaviour
NoGateway == [variant |-> "none"]

\* the state of a function application
fvars == <<inp, out>>

\* the state only the driver of pli-driver.js has
bvars == <<isConnected, connects, exited>>

\* the state only the driver with the reconnect timer has
tvars == <<reconnectTimer, rtimers>>

(***************************************************************************)
(* Bitwise XOR on bytes, as JavaScript's ^ computes it.                    *)
(***************************************************************************)
RECURSIVE XorBits(_, _, _)
XorBits(a, b, n) ==
    IF n = 0 THEN 0
    ELSE (((a % 2) + (b % 2)) % 2) + (2 * XorBits(a \div 2, b \div 2, n - 1))

Xor(a, b) == XorBits(a, b, 8)

\* a command whose check byte is the complement of the command code alone
BuildCommandCmdOnly(cmd, addr, data) == <<cmd, addr, data, Xor(cmd, 255)>>

\* _buildCommand(cmd, addr, data): [CMD, ADDR, DATA, CHECK]
BuildCommand(cmd, addr, data) ==
    <<cmd, addr, data, Xor(Xor(Xor(cmd, addr), data), 255)>>

(***************************************************************************)
(* CircularBuffer (the module the driver requires as ./buffer).            *)
(***************************************************************************)
NewBuffer(size) ==
    [buf |-> [i \in 0..(size - 1) |-> 0], head |-> 0, tail |-> 0,
     size |-> size, count |-> 0]

WriteByte(b, byte) ==
    LET next == (b.head + 1) % b.size
        moved == IF next = b.tail
                 THEN [b EXCEPT !.tail = (b.tail + 1) % b.size]
                 ELSE [b EXCEPT !.head = next]
        stored == [moved EXCEPT !.buf[moved.head] = byte]
    IN  IF stored.count < stored.size
        THEN [stored EXCEPT !.count = stored.count + 1]
        ELSE stored

RECURSIVE Write(_, _)
Write(b, data) ==
    IF data = <<>> THEN b
    ELSE Write(WriteByte(b, Head(data)), Tail(data))

\* readByte(): the byte returned (Null when empty) and the buffer afterwards
ReadByteVal(b) == IF b.count = 0 THEN Null ELSE b.buf[b.tail]

ReadByteBuf(b) ==
    IF b.count = 0 THEN b
    ELSE [b EXCEPT !.tail = (b.tail + 1) % b.size, !.count = b.count - 1]

Peek(b) == IF b.count = 0 THEN Null ELSE b.buf[b.tail]

Available(b) == b.count

\* clear()
Clear(b) == [b EXCEPT !.head = 0, !.tail = 0, !.count = 0]

(***************************************************************************)
(* The pending Map: a sequence of [id, req] in insertion order.  req is    *)
(* the index in reqs of the call whose resolve/reject the entry holds.     *)
(***************************************************************************)
\* `${addr}-${Date.now()}`
RequestId(addr, ms) == <<addr, ms>>

PendingHas(p, id) == \E i \in 1..Len(p) : p[i].id = id

\* Map.set: a new key is appended, an existing key keeps its place and gets
\* the new value
PendingSet(p, id, r) ==
    IF PendingHas(p, id)
    THEN [i \in 1..Len(p) |-> IF p[i].id = id THEN [id |-> id, req |-> r] ELSE p[i]]
    ELSE Append(p, [id |-> id, req |-> r])

PendingGet(p, id) == (CHOOSE i \in 1..Len(p) : p[i].id = id)

\* Map.delete
PendingDelete(p, id) == SelectSeq(p, LAMBDA e : e.id # id)

(***************************************************************************)
(* Promises: resolve and reject act only on a promise that is unsettled.   *)
(***************************************************************************)
Resolve(q, r, v) ==
    IF q[r].status = "unsettled"
    THEN [q EXCEPT ![r].status = "resolved", ![r].value = v,
                   ![r].calls = q[r].calls + 1]
    ELSE [q EXCEPT ![r].calls = q[r].calls + 1]

Reject(q, r, why) ==
    IF q[r].status = "unsettled"
    THEN [q EXCEPT ![r].status = why, ![r].calls = q[r].calls + 1]
    ELSE [q EXCEPT ![r].calls = q[r].calls + 1]

(***************************************************************************)
(* _processResponses(): the loop over the buffer head.  The state it       *)
(* works on is the buffer, the pending Map and the promises.               *)
(***************************************************************************)
IsErrorCode(byte) == byte >= ERR_LO /\ byte <= ERR_HI

\* e: the codes emitted as 'error' events so far in this call
RECURSIVE ProcessResponsesFrom(_, _, _, _)
ProcessResponsesFrom(b, p, q, e) ==
    IF Available(b) = 0 THEN [b |-> b, p |-> p, q |-> q, e |-> e]
    ELSE LET prefix == Peek(b)
             b1 == ReadByteBuf(b)
         IN  IF prefix = PREFIX
             THEN LET data == ReadByteVal(b1)
                      b2 == ReadByteBuf(b1)
                  IN  IF data # Null /\ p # <<>>
                      THEN \* first entry of the Map: delete, resolve, return
                           [b |-> b2, p |-> PendingDelete(p, p[1].id),
                            q |-> Resolve(q, p[1].req, data), e |-> e]
                      ELSE ProcessResponsesFrom(b2, p, q, e)
             ELSE IF IsErrorCode(prefix)
             THEN \* error code: consumed, logged, emitted as 'error'
                  ProcessResponsesFrom(b1, p, q, Append(e, prefix))
             ELSE \* unknown byte: skipped
                  ProcessResponsesFrom(b1, p, q, e)

ProcessResponses(b, p, q) == ProcessResponsesFrom(b, p, q, <<>>)

(***************************************************************************)
(* Sockets.  st is "connecting", "open", "closing" (destroyed or ended by  *)
(* the peer, 'close' not yet emitted) or "closed".  ended: end() was       *)
(* called on it.  out: commands written and not yet answered.  inb: bytes  *)
(* the peer has sent that have not been delivered in a 'data' event.       *)
(***************************************************************************)
NewSocket == [st |-> "connecting", ended |-> FALSE, out |-> <<>>, inb |-> <<>>]

\* a destroyed socket: what was queued on it is discarded
Destroyed == [st |-> "closing", ended |-> FALSE, out |-> <<>>, inb |-> <<>>]

\* socket.readable: true from construction until the stream ends or is destroyed
Readable(s) == s.st \in {"connecting", "open"}

TypeOK ==
    /\ socket \in {Null} \cup (1..Len(sockets))
    /\ reconnectTimer \in BOOLEAN
    /\ rtimers \in Nat
    /\ now \in Nat
    /\ buffer.count \in 0..buffer.size
    /\ isConnected \in BOOLEAN
    /\ exited \in BOOLEAN

Init ==
    \* the constructor: fields, then _connect()
    /\ sockets = <<NewSocket>>
    /\ socket = 1
    /\ reconnectTimer = FALSE
    /\ rtimers = 0
    /\ buffer = NewBuffer(DriverBufSize)
    /\ pending = <<>>
    /\ reqs = <<>>
    /\ now = 0
    /\ ram = [a \in Addrs |-> IF a = 50 THEN 138 ELSE 7]
    /\ disconnectCalled = FALSE
    /\ isConnected = FALSE
    /\ connects = <<>>
    /\ exited = FALSE
    /\ inp = [fn |-> "none"]
    /\ out = [done |-> FALSE]
    /\ tests = <<>>
    /\ emitted = <<>>
    /\ delivered = 0
    /\ gw = NoGateway
    /\ cb = NoBuffer
    /\ srv = NoServer

(***************************************************************************)
(* _scheduleReconnect(): the pair <<this.reconnectTimer, armed timeouts>>  *)
(* after the call.                                                         *)
(***************************************************************************)
ScheduleReconnect(rt, n) ==
    IF rt THEN <<rt, n>> ELSE <<TRUE, n + 1>>

\* a timer that stays armed after it has fired (setInterval for setTimeout)
AfterFireRepeating(n) == n

\* the timeouts left in the timer queue once a one-shot setTimeout has fired
AfterFire(n) == n - 1

(***************************************************************************)
(* Socket events.                                                          *)
(***************************************************************************)
\* the connect callback: logs and emits 'connected'
OnConnect(s) ==
    /\ s \in 1..Len(sockets)
    /\ sockets[s].st = "connecting"
    /\ sockets' = [sockets EXCEPT ![s].st = "open"]
    /\ UNCHANGED <<socket, reconnectTimer, rtimers, buffer, pending, reqs,
                   now, ram, disconnectCalled>>
    /\ UNCHANGED bvars
    /\ UNCHANGED fvars
    /\ UNCHANGED evars
    /\ UNCHANGED gvars
    /\ UNCHANGED ovars

\* the 'error' handler: logs and emits 'error'; Node destroys the socket and
\* emits 'close' afterwards
OnError(s) ==
    /\ s \in 1..Len(sockets)
    /\ sockets[s].st \in {"connecting", "open"}
    /\ Len(sockets) < MaxSockets
    /\ sockets' = [sockets EXCEPT ![s] = Destroyed]
    /\ UNCHANGED <<socket, reconnectTimer, rtimers, buffer, pending, reqs,
                   now, ram, disconnectCalled>>
    /\ UNCHANGED bvars
    /\ UNCHANGED fvars
    /\ UNCHANGED evars
    /\ UNCHANGED gvars
    /\ UNCHANGED ovars

\* the peer ends the connection: the stream ends ('end' has no handler) and,
\* half-open sockets not being allowed, the socket is destroyed
PeerEnd(s) ==
    /\ s \in 1..Len(sockets)
    /\ sockets[s].st = "open"
    /\ sockets[s].inb = <<>>
    /\ Len(sockets) < MaxSockets
    /\ sockets' = [sockets EXCEPT ![s] = Destroyed]
    /\ UNCHANGED <<socket, reconnectTimer, rtimers, buffer, pending, reqs,
                   now, ram, disconnectCalled>>
    /\ UNCHANGED bvars
    /\ UNCHANGED fvars
    /\ UNCHANGED evars
    /\ UNCHANGED gvars
    /\ UNCHANGED ovars

\* the 'close' handler: emits 'disconnected', then _scheduleReconnect()
OnClose(s) ==
    /\ s \in 1..Len(sockets)
    /\ sockets[s].st = "closing"
    /\ sockets' = [sockets EXCEPT ![s].st = "closed"]
    /\ reconnectTimer' = ScheduleReconnect(reconnectTimer, rtimers)[1]
    /\ rtimers' = ScheduleReconnect(reconnectTimer, rtimers)[2]
    /\ UNCHANGED <<socket, buffer, pending, reqs, now, ram, disconnectCalled>>
    /\ UNCHANGED bvars
    /\ UNCHANGED fvars
    /\ UNCHANGED evars
    /\ UNCHANGED gvars
    /\ UNCHANGED ovars

\* the reconnect timeout fires: this.reconnectTimer = null; this._connect()
ReconnectFire ==
    /\ rtimers > 0
    /\ Len(sockets) < MaxSockets
    /\ rtimers' = AfterFire(rtimers)
    /\ reconnectTimer' = FALSE
    /\ sockets' = Append(sockets, NewSocket)
    /\ socket' = Len(sockets) + 1
    /\ UNCHANGED <<buffer, pending, reqs, now, ram, disconnectCalled>>
    /\ UNCHANGED bvars
    /\ UNCHANGED fvars
    /\ UNCHANGED evars
    /\ UNCHANGED gvars
    /\ UNCHANGED ovars

\* the 'data' handler: this.buffer.write(data); this._processResponses()
OnData(s, n) ==
    /\ s \in 1..Len(sockets)
    /\ sockets[s].st = "open"
    /\ n \in 1..Len(sockets[s].inb)
    /\ LET data == SubSeq(sockets[s].inb, 1, n)
           r == ProcessResponses(Write(buffer, data), pending, reqs)
       IN  /\ sockets' = [sockets EXCEPT
                  ![s].inb = SubSeq(sockets[s].inb, n + 1, Len(sockets[s].inb))]
           /\ buffer' = r.b
           /\ pending' = r.p
           /\ reqs' = r.q
           /\ emitted' = emitted \o r.e
           /\ delivered' = delivered + Len(SelectSeq(data, LAMBDA x : x = LOOPBACK_OK))
    /\ UNCHANGED <<socket, reconnectTimer, rtimers, now, ram, disconnectCalled>>
    /\ UNCHANGED tests
    /\ UNCHANGED bvars
    /\ UNCHANGED fvars
    /\ UNCHANGED gvars
    /\ UNCHANGED ovars

(***************************************************************************)
(* The peer: the device behind the gateway answers the oldest command it   *)
(* has received, a read with the Data frame [0xC8, RAM[addr]] and the      *)
(* loopback command with the code 128.  On a noisy link a status byte of   *)
(* the link precedes the Data frame.                                       *)
(***************************************************************************)
ReplyKinds == {"data", "noisy"}

Reply(cmd, kind) ==
    IF cmd[1] = LOOPBACK THEN <<LOOPBACK_OK>>
    ELSE IF kind = "noisy" THEN <<NOISE, PREFIX, ram[cmd[2]]>>
    ELSE <<PREFIX, ram[cmd[2]]>>

DeviceReplyKind(s, kind) ==
    /\ s \in 1..Len(sockets)
    /\ sockets[s].st = "open"
    /\ sockets[s].out # <<>>
    /\ sockets' = [sockets EXCEPT
           ![s].out = Tail(sockets[s].out),
           ![s].inb = sockets[s].inb \o Reply(Head(sockets[s].out), kind)]
    /\ UNCHANGED <<socket, reconnectTimer, rtimers, buffer, pending, reqs,
                   now, ram, disconnectCalled>>
    /\ UNCHANGED bvars
    /\ UNCHANGED fvars
    /\ UNCHANGED evars
    /\ UNCHANGED gvars
    /\ UNCHANGED ovars

(***************************************************************************)
(* The caller's operations.                                                *)
(***************************************************************************)
\* the connection this.socket refers to is established
Connected == socket # Null /\ sockets[socket].st = "open"

Unsettled == {r \in 1..Len(reqs) : reqs[r].status = "unsettled"}

\* the record of a call: its arguments, the state of its promise (status,
\* value, calls of resolve/reject), the state of its timeout timer, how many
\* earlier calls were still unsettled when it was made and whether the
\* connection was established then
NewReq(addr, start, timeout, status, timer) ==
    [addr |-> addr, start |-> start, timeout |-> timeout, status |-> status,
     value |-> Null, calls |-> IF status = "unsettled" THEN 0 ELSE 1,
     timer |-> timer, inflight |-> Cardinality(Unsettled),
     open |-> Connected]

\* the body of read(addr, timeout), called d milliseconds after the
\* previous event
ReadCall(addr, timeout, d) ==
    /\ now' = now + d
    /\ IF socket = Null \/ ~Readable(sockets[socket])
       THEN /\ reqs' = Append(reqs, NewReq(addr, now', timeout, "not_connected", "none"))
            /\ UNCHANGED <<sockets, pending>>
       ELSE LET cmd == BuildCommand(READ_RAM, addr, 0)
                requestId == RequestId(addr, now')
            IN  /\ pending' = PendingSet(pending, requestId, Len(reqs) + 1)
                /\ sockets' = [sockets EXCEPT
                       ![socket].out = Append(sockets[socket].out, cmd)]
                /\ reqs' = Append(reqs, NewReq(addr, now', timeout, "unsettled", "armed"))
    /\ UNCHANGED <<socket, reconnectTimer, rtimers, buffer, ram,
                   disconnectCalled>>
    /\ UNCHANGED bvars
    /\ UNCHANGED evars
    /\ UNCHANGED gvars
    /\ UNCHANGED ovars

\* read(addr, timeout), called by the application
Read(addr, timeout, d) ==
    /\ Len(reqs) < MaxReads
    /\ ReadCall(addr, timeout, d)
    /\ UNCHANGED fvars

\* the time a timer of read() expires at
Deadline(r) == reqs[r].start + reqs[r].timeout

\* the time the timer of test() expires at
TestDeadline(t) == tests[t].start + TestDelay

\* Node runs expired timers in the order of their expiry time, and timers of
\* the same duration in the order they were armed
TimerDue(r) ==
    /\ reqs[r].timer = "armed"
    /\ \A o \in 1..Len(reqs) :
          reqs[o].timer = "armed" /\ o # r =>
             \/ Deadline(o) > Deadline(r)
             \/ (Deadline(o) = Deadline(r) /\ o > r)
    /\ \A t \in 1..Len(tests) :
          tests[t].timer = "armed" => TestDeadline(t) > Deadline(r)

\* the timeout callback of read(); it runs once its delay has passed
Timeout(r) ==
    /\ r \in 1..Len(reqs)
    /\ TimerDue(r)
    /\ now' = IF now < Deadline(r) THEN Deadline(r) ELSE now
    /\ LET requestId == RequestId(reqs[r].addr, reqs[r].start)
           fired == [reqs EXCEPT ![r].timer = "fired"]
       IN  IF PendingHas(pending, requestId)
           THEN /\ pending' = PendingDelete(pending, requestId)
                /\ reqs' = Reject(fired, r, "timeout")
           ELSE /\ pending' = pending
                /\ reqs' = fired
    /\ UNCHANGED <<sockets, socket, reconnectTimer, rtimers, buffer, ram,
                   disconnectCalled>>
    /\ UNCHANGED bvars
    /\ UNCHANGED fvars
    /\ UNCHANGED evars
    /\ UNCHANGED gvars
    /\ UNCHANGED ovars

\* disconnect()
Disconnect ==
    /\ rtimers' = IF reconnectTimer THEN rtimers - 1 ELSE rtimers
    /\ reconnectTimer' = FALSE
    /\ IF socket # Null
       THEN /\ sockets' = [sockets EXCEPT ![socket].ended = TRUE]
            /\ socket' = Null
       ELSE UNCHANGED <<sockets, socket>>
    /\ disconnectCalled' = TRUE
    /\ UNCHANGED <<buffer, pending, reqs, now, ram>>
    /\ UNCHANGED bvars
    /\ UNCHANGED fvars
    /\ UNCHANGED evars
    /\ UNCHANGED gvars
    /\ UNCHANGED ovars

\* the reply of the device on a quiet link
DeviceReply(s) == DeviceReplyKind(s, "data")

\* test(): the executor writes the loopback command and arms the timer; a
\* null this.socket makes the executor throw, which rejects the promise
Test(d) ==
    /\ Len(tests) < MaxTests
    /\ now' = now + d
    /\ IF socket = Null
       THEN /\ tests' = Append(tests, [start |-> now', status |-> "rejected",
                                       timer |-> "none", open |-> FALSE,
                                       mark |-> delivered])
            /\ UNCHANGED sockets
       ELSE /\ tests' = Append(tests, [start |-> now', status |-> "pending",
                                       timer |-> "armed", open |-> Connected,
                                       mark |-> delivered])
            /\ sockets' = [sockets EXCEPT
                   ![socket].out =
                       IF Readable(sockets[socket])
                       THEN Append(sockets[socket].out, BuildCommand(LOOPBACK, 0, 0))
                       ELSE sockets[socket].out]
    /\ UNCHANGED <<socket, reconnectTimer, rtimers, buffer, pending, reqs, ram,
                   disconnectCalled, emitted, delivered>>
    /\ UNCHANGED bvars
    /\ UNCHANGED fvars
    /\ UNCHANGED gvars
    /\ UNCHANGED ovars

\* the timer of test() runs once every timer that expires before it has run
TestTimerDue(t) ==
    /\ tests[t].timer = "armed"
    /\ \A r \in 1..Len(reqs) :
          reqs[r].timer = "armed" => Deadline(r) >= TestDeadline(t)

\* the timeout callback of test(): resolve(true)
TestFire(t) ==
    /\ t \in 1..Len(tests)
    /\ TestTimerDue(t)
    /\ now' = IF now < TestDeadline(t) THEN TestDeadline(t) ELSE now
    /\ tests' = [tests EXCEPT ![t].timer = "fired", ![t].status = "true"]
    /\ UNCHANGED <<sockets, socket, reconnectTimer, rtimers, buffer, pending,
                   reqs, ram, disconnectCalled, emitted, delivered>>
    /\ UNCHANGED bvars
    /\ UNCHANGED fvars
    /\ UNCHANGED gvars
    /\ UNCHANGED ovars

Next ==
    \/ \E s \in 1..MaxSockets : OnConnect(s)
    \/ \E s \in 1..MaxSockets : OnError(s)
    \/ \E s \in 1..MaxSockets : PeerEnd(s)
    \/ \E s \in 1..MaxSockets : OnClose(s)
    \/ ReconnectFire
    \/ \E s \in 1..MaxSockets, n \in 1..(2 * MaxReads) : OnData(s, n)
    \/ \E s \in 1..MaxSockets : DeviceReply(s)
    \/ \E a \in Addrs, t \in Timeouts, d \in Elapsed : Read(a, t, d)
    \/ \E r \in 1..MaxReads : Timeout(r)
    \/ Disconnect

Spec == Init /\ [][Next]_vars

\* the driver with its self-test, on a link that may be noisy but stays up
NextTest ==
    \/ \E s \in 1..MaxSockets : OnConnect(s)
    \/ \E s \in 1..MaxSockets, n \in 1..MaxChunk : OnData(s, n)
    \/ \E s \in 1..MaxSockets, k \in ReplyKinds : DeviceReplyKind(s, k)
    \/ \E a \in Addrs, t \in Timeouts, d \in Elapsed : Read(a, t, d)
    \/ \E r \in 1..MaxReads : Timeout(r)
    \/ \E d \in Elapsed : Test(d)
    \/ \E t \in 1..MaxTests : TestFire(t)
    \/ Disconnect

SpecTest == Init /\ [][NextTest]_vars

(***************************************************************************)
(* The driver of src/driver/pli-driver.js.  this.socket, this.buffer and   *)
(* this.pendingReads are the variables socket, buffer and pending.  It has *)
(* no reconnect timer.                                                     *)
(***************************************************************************)
InitB ==
    \* the constructor: no socket is created before connect() is called
    /\ sockets = <<>>
    /\ socket = Null
    /\ reconnectTimer = FALSE
    /\ rtimers = 0
    /\ buffer = NewBuffer(DriverBufSize)
    /\ pending = <<>>
    /\ reqs = <<>>
    /\ now = 0
    /\ ram = [a \in Addrs |-> IF a = 50 THEN 138 ELSE 7]
    /\ disconnectCalled = FALSE
    /\ isConnected = FALSE
    /\ connects = <<>>
    /\ exited = FALSE
    /\ inp = [fn |-> "none"]
    /\ out = [done |-> FALSE]
    /\ tests = <<>>
    /\ emitted = <<>>
    /\ delivered = 0
    /\ gw = NoGateway
    /\ cb = NoBuffer
    /\ srv = NoServer

\* Date.now() + Math.random()
RequestIdB(ms, rnd) == <<ms, rnd>>

\* reject(err) of the connect() call that created socket s
RejectConnect(c, s) ==
    [i \in 1..Len(c) |->
        IF c[i].sock = s /\ c[i].status = "pending"
        THEN [c[i] EXCEPT !.status = "rejected"]
        ELSE c[i]]

\* connect()
ConnectB ==
    /\ ~exited
    /\ Len(connects) < MaxSockets
    /\ IF isConnected
       THEN /\ connects' = Append(connects, [status |-> "resolved", sock |-> Null])
            /\ UNCHANGED <<sockets, socket>>
       ELSE /\ sockets' = Append(sockets, NewSocket)
            /\ socket' = Len(sockets) + 1
            /\ connects' = Append(connects,
                              [status |-> "pending", sock |-> Len(sockets) + 1])
    /\ UNCHANGED <<buffer, pending, reqs, now, ram, disconnectCalled,
                   isConnected, exited>>
    /\ UNCHANGED tvars
    /\ UNCHANGED fvars
    /\ UNCHANGED evars
    /\ UNCHANGED gvars
    /\ UNCHANGED ovars

\* the connect callback: isConnected = true, then this.startReader(), which
\* the class does not define: the TypeError leaves the callback before
\* resolve() and, nothing catching it, ends the process
OnConnectB(s) ==
    /\ ~exited
    /\ s \in 1..Len(sockets)
    /\ sockets[s].st = "connecting"
    /\ sockets' = [sockets EXCEPT ![s].st = "open"]
    /\ isConnected' = TRUE
    /\ exited' = TRUE
    /\ UNCHANGED <<socket, buffer, pending, reqs, now, ram, disconnectCalled,
                   connects>>
    /\ UNCHANGED tvars
    /\ UNCHANGED fvars
    /\ UNCHANGED evars
    /\ UNCHANGED gvars
    /\ UNCHANGED ovars

\* the 'error' handler: isConnected = false; reject(err)
OnErrorB(s) ==
    /\ ~exited
    /\ s \in 1..Len(sockets)
    /\ sockets[s].st \in {"connecting", "open"}
    /\ sockets' = [sockets EXCEPT ![s] = Destroyed]
    /\ isConnected' = FALSE
    /\ connects' = RejectConnect(connects, s)
    /\ UNCHANGED <<socket, buffer, pending, reqs, now, ram, disconnectCalled,
                   exited>>
    /\ UNCHANGED tvars
    /\ UNCHANGED fvars
    /\ UNCHANGED evars
    /\ UNCHANGED gvars
    /\ UNCHANGED ovars

\* the 'close' handler: isConnected = false
OnCloseB(s) ==
    /\ ~exited
    /\ s \in 1..Len(sockets)
    /\ sockets[s].st = "closing"
    /\ sockets' = [sockets EXCEPT ![s].st = "closed"]
    /\ isConnected' = FALSE
    /\ UNCHANGED <<socket, buffer, pending, reqs, now, ram, disconnectCalled,
                   connects, exited>>
    /\ UNCHANGED tvars
    /\ UNCHANGED fvars
    /\ UNCHANGED evars
    /\ UNCHANGED gvars
    /\ UNCHANGED ovars

\* disconnect()
DisconnectB ==
    /\ ~exited
    /\ IF socket # Null
       THEN /\ sockets' = [sockets EXCEPT ![socket].ended = TRUE]
            /\ socket' = Null
       ELSE UNCHANGED <<sockets, socket>>
    /\ isConnected' = FALSE
    /\ disconnectCalled' = TRUE
    /\ UNCHANGED <<buffer, pending, reqs, now, ram, connects, exited>>
    /\ UNCHANGED tvars
    /\ UNCHANGED fvars
    /\ UNCHANGED evars
    /\ UNCHANGED gvars
    /\ UNCHANGED ovars

\* read(addr, timeout), called d milliseconds after the previous event
ReadB(addr, timeout, d) ==
    /\ ~exited
    /\ Len(reqs) < MaxReads
    /\ now' = now + d
    /\ IF ~isConnected
       THEN /\ reqs' = Append(reqs, NewReq(addr, now', timeout, "not_connected", "none"))
            /\ UNCHANGED <<sockets, pending>>
       ELSE \E rnd \in Randoms :
               LET cmd == BuildCommand(READ_RAM, addr, 0)
                   id == RequestIdB(now', rnd)
               IN  /\ pending' = PendingSet(pending, id, Len(reqs) + 1)
                   /\ sockets' = [sockets EXCEPT
                          ![socket].out = Append(sockets[socket].out, cmd)]
                   /\ reqs' = Append(reqs, NewReq(addr, now', timeout, "unsettled", "armed"))
    /\ UNCHANGED <<socket, buffer, ram, disconnectCalled, isConnected,
                   connects, exited>>
    /\ UNCHANGED tvars
    /\ UNCHANGED fvars
    /\ UNCHANGED evars
    /\ UNCHANGED gvars
    /\ UNCHANGED ovars

NextB ==
    \/ ConnectB
    \/ \E s \in 1..MaxSockets : OnConnectB(s)
    \/ \E s \in 1..MaxSockets : OnErrorB(s)
    \/ \E s \in 1..MaxSockets : OnCloseB(s)
    \/ DisconnectB
    \/ \E a \in Addrs, t \in Timeouts, d \in Elapsed : ReadB(a, t, d)

SpecB == InitB /\ [][NextB]_vars

\* Node emits 'close' on every socket it has destroyed
SpecBFair == SpecB /\ WF_vars(\E s \in 1..MaxSockets : OnCloseB(s))

(***************************************************************************)
(* Functions of their arguments alone.  A quantity the code computes with  *)
(* a decimal factor (0.5, 0.1, 0.2, 0.4) is held in tenths, so that it     *)
(* stays an integer; the fields keep the names the code gives them.        *)
(***************************************************************************)
\* the command codes of CMD
Cmds == {READ_RAM, READ_EEPROM, WRITE_RAM, WRITE_EEPROM, LOOPBACK, BUTTON}

Bytes == 0..255
DataBytes == {0, 85, 255}           \* payloads given to the command builder
Models == {"PL20", "PL40", "PL60", "PL80"}   \* options.model; PL80 is not a known model
Ratios == {1, 2, 4}                 \* system voltage / 12 V of the installation
MaxBatch == 2                       \* addresses in one readBatch() call

\* a & b on bytes
RECURSIVE AndBits(_, _, _)
AndBits(a, b, n) ==
    IF n = 0 THEN 0
    ELSE ((a % 2) * (b % 2)) + (2 * AndBits(a \div 2, b \div 2, n - 1))

And(a, b) == AndBits(a, b, 8)

\* a >> n on a non-negative integer
ShiftRight(a, n) == a \div (2 ^ n)

(***************************************************************************)
(* readBatch(addresses), given the outcome of each read it awaits.         *)
(***************************************************************************)
Outcomes ==
    {[kind |-> "value", value |-> v] : v \in Vals}
        \cup {[kind |-> k, value |-> Null] : k \in {"timeout", "not_connected"}}

\* results[addr] = value
SetResult(results, addr, value) ==
    [a \in (DOMAIN results) \cup {addr} |->
        IF a = addr THEN value ELSE results[a]]

\* an await whose promise is rejected outside any try block: the async
\* function rejects and its loop is left
ReadBatchUncaught(st, addr) ==
    [st EXCEPT !.status = "rejected"]

\* the catch block: results[addr] = null
ReadBatchCatch(st, addr) ==
    [st EXCEPT !.results = SetResult(st.results, addr, Null)]

RECURSIVE ReadBatchFrom(_, _, _, _)
ReadBatchFrom(addresses, outcomes, i, st) ==
    IF st.status = "rejected" THEN st
    ELSE IF i > Len(addresses) THEN [st EXCEPT !.status = "returned"]
    ELSE LET addr == addresses[i]
             called == [st EXCEPT !.attempted = Append(st.attempted, addr)]
         IN  ReadBatchFrom(addresses, outcomes, i + 1,
                 IF outcomes[i].kind = "value"
                 THEN [called EXCEPT !.results =
                          SetResult(called.results, addr, outcomes[i].value)]
                 ELSE ReadBatchCatch(called, addr))

ReadBatch(addresses, outcomes) ==
    ReadBatchFrom(addresses, outcomes, 1,
                  [status |-> "running", results |-> <<>>, attempted |-> <<>>])

(***************************************************************************)
(* The accessors: what each returns for the raw byte its read() gave.      *)
(***************************************************************************)
\* the driver with the reconnect timer; StateNames is its table STATE
StateNames == <<"BOOST", "EQUALIZE", "ABSORPTION", "FLOAT", "RESTRICTED", "LVD",
                "SHORT_EQ", "UNDEFINED">>

\* STATE[raw] || 'UNKNOWN' (the keys of the table are 0 .. Len - 1)
StateName(states, raw) ==
    IF raw + 1 \in DOMAIN states THEN states[raw + 1] ELSE "UNKNOWN"

\* one multiplier for every model
MultiplierDefault(model) == 2

\* multipliers[model] || 0.2, in tenths
Multiplier(model) ==
    CASE model = "PL20" -> 1
      [] model = "PL40" -> 2
      [] model = "PL60" -> 4
      [] OTHER -> 2

GetBatteryVoltage(raw) == [raw |-> raw, voltage |-> raw]

GetBatteryTemp(raw) == [raw |-> raw, temp |-> raw - 100]

GetSOC(raw) == [raw |-> raw, soc |-> raw]

GetSolarVoltage(raw) == [raw |-> raw, voltage |-> raw * 5]

GetChargeCurrent(raw, model) == [raw |-> raw, current |-> raw * Multiplier(model)]

GetState(raw) == [raw |-> raw, state |-> StateName(StateNames, raw)]

\* the driver of src/driver/pli-driver.js; StateNamesB is its table STATE
StateNamesB == <<"BOOST", "EQUALIZE", "ABSORPTION", "FLOAT", "RESTRICTED", "LVD">>

\* const systemVoltage = 12; return raw * (systemVoltage / 12)
ReadBatteryVoltage(raw) == raw * (12 \div 12)

ReadBatteryTemp(raw) == raw - 100

ReadSOC(raw) == raw

ReadSolarVoltage(raw) == raw * 5

ReadChargeCurrent(raw, model) == raw * Multiplier(model)

ReadState(raw) == [code |-> raw, name |-> StateName(StateNamesB, raw)]

(***************************************************************************)
(* The history functions of the protocol document.                         *)
(***************************************************************************)
LogStart == 46       \* 0x2E
LogWrap == 210       \* 0xD2
RecordLen == 7
HistoryDays == 30

Pointers == {0, 2, 29}          \* day pointers given to readHistory
\* the days of a fetch whose reads fail (0: the read of the pointer)
FailingDays == {{}} \cup {{d} : d \in 0..HistoryDays} \cup {{3, 4}}

\* the RAM the history is read from
DeviceMem == [a \in Bytes |-> ((a * 7) + 3) % 256]

\* the offset of a day without the wrap-around
HistoryOffsetNoWrap(pointer, day) ==
    (LogStart + (7 * pointer)) - (7 * (day - 1))

\* the offset readHistory computes for a day
HistoryOffset(pointer, day) ==
    LET baseOffset == LogStart + (7 * pointer)
        offset == baseOffset - (7 * (day - 1))
    IN  IF offset < LogStart
        THEN (baseOffset + LogWrap) - (7 * (day - 1))
        ELSE offset

\* readBytes(port, offset, 7)
ReadBytes(offset, n) == [i \in 1..n |-> DeviceMem[(offset + i - 1) % 256]]

\* the part of chargeAh the last byte would give if taken whole
ChargeMsbWholeByte(b6) == b6 * 256

\* (data[6] & 0x0F) * 256, the part of chargeAh the last byte gives
ChargeMsb(b6) == And(b6, 15) * 256

\* parseDayRecord(data); data[k] of the code is data[k + 1] here
ParseDayRecord(data, ratio) ==
    LET chargeAh == data[5] + ChargeMsb(data[7])
        loadAh == data[6] + (ShiftRight(And(data[7], 240), 4) * 256)
    IN  [vmax |-> data[1] * ratio, vmin |-> data[2] * ratio,
         floatHours |-> data[3], soc |-> data[4],
         chargeAh |-> chargeAh, loadAh |-> loadAh]

RECURSIVE ReadHistoryFrom(_, _, _, _, _)
ReadHistoryFrom(day, pointer, failing, ratio, history) ==
    IF day > HistoryDays THEN [status |-> "returned", history |-> history]
    ELSE IF day \in failing
    THEN \* the awaited readBytes rejects: readHistory rejects
         [status |-> "rejected", history |-> <<>>]
    ELSE ReadHistoryFrom(day + 1, pointer, failing, ratio,
             Append(history,
                    ParseDayRecord(ReadBytes(HistoryOffset(pointer, day), RecordLen),
                                   ratio)))

\* readHistory(port), given the pointer read and the days whose reads fail
ReadHistory(pointer, failing, ratio) ==
    IF 0 \in failing THEN [status |-> "rejected", history |-> <<>>]
    ELSE ReadHistoryFrom(1, pointer, failing, ratio, <<>>)

\* the offsets readHistory computes for the days 1..30, going forward
HistoryOffsetsForward(pointer) ==
    [day \in 1..HistoryDays |->
        LogStart + (7 * ((pointer + (day - 1)) % HistoryDays))]

\* the offsets readHistory computes for the days 1..30
HistoryOffsets(pointer) ==
    [day \in 1..HistoryDays |-> HistoryOffset(pointer, day)]

(***************************************************************************)
(* The address tables and the command an accessor writes.                  *)
(***************************************************************************)
\* ADDR of the driver with the reconnect timer
ADDR ==
    ("BATTERY_VOLTAGE" :> 50) @@ ("BATTERY_TEMP" :> 52)
        @@ ("BATTERY_CURRENT" :> 212) @@ ("SOLAR_VOLTAGE" :> 53)
        @@ ("SOLAR_CURRENT" :> 212) @@ ("STATE" :> 101) @@ ("SOC" :> 181)
        @@ ("DAY_POINTER" :> 45) @@ ("DAY_MIN_VOLTAGE" :> 46)
        @@ ("DAY_MAX_VOLTAGE" :> 47) @@ ("DAY_TIME_FLOAT" :> 48)
        @@ ("DAY_SOC" :> 49) @@ ("EMAX" :> 35) @@ ("EMIN" :> 36)
        @@ ("BATTERY_SIZE" :> 37) @@ ("SOFTWARE_VERSION" :> 1)

\* ADDR of src/driver/pli-driver.js
ADDR_B ==
    ("BATTERY_VOLTAGE" :> 50) @@ ("BATTERY_TEMP" :> 52)
        @@ ("SOLAR_VOLTAGE" :> 53) @@ ("CHARGE_CURRENT" :> 212)
        @@ ("LOAD_CURRENT" :> 216) @@ ("STATE" :> 101) @@ ("SOC" :> 181)
        @@ ("DAY_NUMBER" :> 0) @@ ("SOFTWARE_VERSION" :> 1)

Drivers == {"part_003", "pli-driver"}

\* JavaScript undefined
Undefined == -2

\* table.KEY: undefined for a key the table does not have
Lookup(table, key) == IF key \in DOMAIN table THEN table[key] ELSE Undefined

\* the key of ADDR each accessor reads, in the order getAll / readAll call them
AccessorKeys ==
    <<"BATTERY_VOLTAGE", "BATTERY_TEMP", "SOC", "SOLAR_VOLTAGE",
      "CHARGE_CURRENT", "STATE">>

\* the address an accessor of a driver passes to read()
AccessorAddr(driver, k) ==
    Lookup(IF driver = "part_003" THEN ADDR ELSE ADDR_B, AccessorKeys[k])

\* what ^ and Buffer.from make of an address: undefined becomes 0
CoerceByte(x) == IF x = Undefined THEN 0 ELSE x % 256

\* the command read(addr) writes
ReadCommand(addr) == BuildCommand(READ_RAM, CoerceByte(addr), 0)

(***************************************************************************)
(* SpecFn: one application of one of these functions.                      *)
(***************************************************************************)
RawAccessors == {"getBatteryTemp", "getSOC", "getSolarVoltage", "getState",
                 "readBatteryTemp", "readSOC", "readSolarVoltage", "readState"}

InitFn ==
    /\ sockets = <<>>
    /\ socket = Null
    /\ reconnectTimer = FALSE
    /\ rtimers = 0
    /\ buffer = NewBuffer(DriverBufSize)
    /\ pending = <<>>
    /\ reqs = <<>>
    /\ now = 0
    /\ ram = [a \in Addrs |-> IF a = 50 THEN 138 ELSE 7]
    /\ disconnectCalled = FALSE
    /\ isConnected = FALSE
    /\ connects = <<>>
    /\ exited = FALSE
    /\ out = [done |-> FALSE]
    /\ tests = <<>>
    /\ emitted = <<>>
    /\ delivered = 0
    /\ gw = NoGateway
    /\ cb = NoBuffer
    /\ srv = NoServer
    /\ \/ inp \in [fn : {"buildCommand"}, cmd : Cmds, addr : Bytes, data : DataBytes]
       \/ \E k \in 0..MaxBatch :
             inp \in [fn : {"readBatch"}, addresses : [1..k -> Addrs],
                      outcomes : [1..k -> Outcomes]]
       \/ inp \in [fn : RawAccessors, raw : Bytes]
       \/ inp \in [fn : {"getChargeCurrent", "readChargeCurrent"},
                   raw : Bytes, model : Models]
       \/ inp \in [fn : {"getBatteryVoltage", "readBatteryVoltage"},
                   raw : Bytes, ratio : Ratios]
       \/ inp \in [fn : {"historyOffset"}, pointer : 0..(HistoryDays - 1),
                   day : 1..HistoryDays]
       \/ inp \in [fn : {"parseDayRecord"}, ratio : Ratios,
                   data : {<<10, 20, 30, b3, b4, b5, b6>> :
                              b3 \in {40}, b4 \in {0, 50, 255},
                              b5 \in {0, 60, 255}, b6 \in Bytes}]
       \/ inp \in [fn : {"readHistory"}, pointer : Pointers,
                   failing : FailingDays, ratio : {1}]
       \/ inp \in [fn : {"historyOffsets"}, pointer : 0..(HistoryDays - 1)]
       \/ inp \in [fn : {"readCommand"}, driver : Drivers,
                   accessor : 1..Len(AccessorKeys)]

\* the function named fn returns ret
Returns(fn, ret) ==
    /\ inp.fn = fn
    /\ ~out.done
    /\ out' = [done |-> TRUE, ret |-> ret]
    /\ UNCHANGED <<sockets, socket, reconnectTimer, rtimers, buffer, pending,
                   reqs, now, ram, disconnectCalled, isConnected, connects,
                   exited, inp, tests, emitted, delivered, gw, cb, srv>>

CallBuildCommand ==
    inp.fn = "buildCommand"
        /\ Returns("buildCommand", BuildCommand(inp.cmd, inp.addr, inp.data))

CallReadBatch ==
    inp.fn = "readBatch"
        /\ Returns("readBatch", ReadBatch(inp.addresses, inp.outcomes))

CallGetBatteryVoltage ==
    inp.fn = "getBatteryVoltage"
        /\ Returns("getBatteryVoltage", GetBatteryVoltage(inp.raw))

CallGetBatteryTemp ==
    inp.fn = "getBatteryTemp"
        /\ Returns("getBatteryTemp", GetBatteryTemp(inp.raw))

CallGetSOC ==
    inp.fn = "getSOC" /\ Returns("getSOC", GetSOC(inp.raw))

CallGetSolarVoltage ==
    inp.fn = "getSolarVoltage"
        /\ Returns("getSolarVoltage", GetSolarVoltage(inp.raw))

CallGetChargeCurrent ==
    inp.fn = "getChargeCurrent"
        /\ Returns("getChargeCurrent", GetChargeCurrent(inp.raw, inp.model))

CallGetState ==
    inp.fn = "getState" /\ Returns("getState", GetState(inp.raw))

CallReadBatteryVoltage ==
    inp.fn = "readBatteryVoltage"
        /\ Returns("readBatteryVoltage", ReadBatteryVoltage(inp.raw))

CallReadBatteryTemp ==
    inp.fn = "readBatteryTemp"
        /\ Returns("readBatteryTemp", ReadBatteryTemp(inp.raw))

CallReadSOC ==
    inp.fn = "readSOC" /\ Returns("readSOC", ReadSOC(inp.raw))

CallReadSolarVoltage ==
    inp.fn = "readSolarVoltage"
        /\ Returns("readSolarVoltage", ReadSolarVoltage(inp.raw))

CallReadChargeCurrent ==
    inp.fn = "readChargeCurrent"
        /\ Returns("readChargeCurrent", ReadChargeCurrent(inp.raw, inp.model))

CallReadState ==
    inp.fn = "readState" /\ Returns("readState", ReadState(inp.raw))

CallHistoryOffset ==
    inp.fn = "historyOffset"
        /\ Returns("historyOffset", HistoryOffset(inp.pointer, inp.day))

CallParseDayRecord ==
    inp.fn = "parseDayRecord"
        /\ Returns("parseDayRecord", ParseDayRecord(inp.data, inp.ratio))

CallReadHistory ==
    inp.fn = "readHistory"
        /\ Returns("readHistory", ReadHistory(inp.pointer, inp.failing, inp.ratio))

CallHistoryOffsets ==
    inp.fn = "historyOffsets"
        /\ Returns("historyOffsets", HistoryOffsets(inp.pointer))

CallReadCommand ==
    inp.fn = "readCommand"
        /\ Returns("readCommand",
                   ReadCommand(AccessorAddr(inp.driver, inp.accessor)))

NextFn ==
    \/ CallBuildCommand
    \/ CallReadBatch
    \/ CallGetBatteryVoltage
    \/ CallGetBatteryTemp
    \/ CallGetSOC
    \/ CallGetSolarVoltage
    \/ CallGetChargeCurrent
    \/ CallGetState
    \/ CallReadBatteryVoltage
    \/ CallReadBatteryTemp
    \/ CallReadSOC
    \/ CallReadSolarVoltage
    \/ CallReadChargeCurrent
    \/ CallReadState
    \/ CallHistoryOffset
    \/ CallParseDayRecord
    \/ CallReadHistory
    \/ CallHistoryOffsets
    \/ CallReadCommand

SpecFn == InitFn /\ [][NextFn]_vars

\* the application of fn has returned
Returned(fn) == inp.fn = fn /\ out.done

(***************************************************************************)
(* The gateway sketches.  gw.variant is "arduino" for the sketch with the  *)
(* TCP_TIMEOUT check in loop() and "solar" for the sketch that waits for   *)
(* the WiFi association.  One action is one iteration of loop(); millis()  *)
(* is read as one value throughout an iteration.  tcp is the state of      *)
(* tcpClient ("closed", "open", or "ended" once the server has closed),    *)
(* tcpIn and pliIn are the bytes waiting on the two links, toPli and toTcp *)
(* the bytes written to them.  changes lists the changes of currentState   *)
(* made in the last iteration, attempt the result of the connect() called  *)
(* in it, forced whether it closed the connection on a timeout and         *)
(* lastRelay the time of the last relayed byte (or of the connect).        *)
(***************************************************************************)
MaxLoops == 5       \* iterations of loop() in one behaviour
MaxQueue == 1       \* bytes waiting on a link of the gateway

TCP_TIMEOUT == 10000
ACTIVITY_TIMEOUT == 60000
RETRY_MS == 5000
CONNECTING_MS == 5000
CONNECTING_MS_SOLAR == 10000
ERROR_DELAY == 1000
CTRL_LIMIT == 32
CR == 13
LF == 10

GwVariants == {"arduino", "solar"}
GwElapsed == {1, 5001, 10001, 60001}   \* time between two iterations (ms)
GwTcpBytes == {20}                     \* bytes the server sends
GwPliBytes == {7, 200}                 \* bytes the PLI sends

\* the globals after setup()
InitialGateway(variant) ==
    [variant |-> variant, currentState |-> "DISCONNECTED", lastActivity |-> 0,
     lastAttempt |-> 0, millis |-> 0, wifi |-> FALSE, tcp |-> "closed",
     tcpIn |-> <<>>, pliIn |-> <<>>, toPli |-> <<>>, toTcp |-> <<>>,
     changes |-> <<>>, attempt |-> "none", forced |-> FALSE, lastRelay |-> 0,
     loops |-> 0]

\* currentState = st
SetState(g, st) ==
    [g EXCEPT !.currentState = st,
              !.changes = IF st = g.currentState THEN g.changes
                          ELSE Append(g.changes, <<g.currentState, st>>)]

\* tcpClient.stop()
Stop(g) == [g EXCEPT !.tcp = "closed", !.tcpIn = <<>>]

\* tcpClient.connected(): established, or closed with bytes still to read
TcpConnected(g) == g.tcp = "open" \/ g.tcpIn # <<>>

\* tcpClient.connect(): any previous connection is dropped first
Connect(g, ok) ==
    [g EXCEPT !.tcp = IF ok THEN "open" ELSE "closed", !.tcpIn = <<>>,
              !.attempt = IF ok THEN "ok" ELSE "failed"]

\* an attempt that goes on without entering STATE_CONNECTING
BeginAttemptSilent(g) == g

\* currentState = STATE_CONNECTING, before connect() is called
BeginAttempt(g) == SetState(g, "CONNECTING")

\* the relay TCP -> PLI of handleConnected()
RelayTcpToPli(g) ==
    IF g.tcpIn # <<>>
    THEN [g EXCEPT !.tcpIn = Tail(g.tcpIn),
                   !.toPli = Append(g.toPli, Head(g.tcpIn)),
                   !.lastActivity = g.millis, !.lastRelay = g.millis]
    ELSE g

\* tcpClient.write(data): a byte written to a closed connection is lost
TcpWrite(g, data) ==
    [g EXCEPT !.toTcp = IF g.tcp = "open" THEN Append(g.toTcp, data) ELSE g.toTcp,
              !.lastRelay = g.millis]

\* the filter of the relay PLI -> TCP
PassesFilter(data) == data >= CTRL_LIMIT \/ data = CR \/ data = LF

(* the sketch "arduino" *)
HandleDisconnectedArduino(g, ok) ==
    IF g.millis - g.lastAttempt > RETRY_MS
    THEN LET a == Connect(BeginAttempt([g EXCEPT !.lastAttempt = g.millis]), ok)
         IN  IF ok
             THEN [SetState(a, "CONNECTED") EXCEPT !.lastActivity = g.millis,
                                                  !.lastRelay = g.millis]
             ELSE SetState(a, "DISCONNECTED")
    ELSE g

HandleConnectingArduino(g) ==
    IF g.millis - g.lastActivity > CONNECTING_MS
    THEN SetState(Stop(g), "DISCONNECTED")
    ELSE g

HandleConnectedArduino(g) ==
    IF ~TcpConnected(g) THEN SetState(g, "DISCONNECTED")
    ELSE LET a == RelayTcpToPli(g)
         IN  IF a.pliIn # <<>>
             THEN LET data == Head(a.pliIn)
                      b == [a EXCEPT !.pliIn = Tail(a.pliIn)]
                      c == IF PassesFilter(data) THEN TcpWrite(b, data) ELSE b
                  IN  [c EXCEPT !.lastActivity = g.millis]
             ELSE a

\* handleError(): stop, STATE_DISCONNECTED, delay(1000)
HandleError(g) ==
    [SetState(Stop(g), "DISCONNECTED") EXCEPT !.millis = g.millis + ERROR_DELAY]

\* disconnectTCP()
DisconnectTCP(g) == SetState(Stop(g), "DISCONNECTED")

LoopArduino(g, ok) ==
    LET h == CASE g.currentState = "DISCONNECTED" -> HandleDisconnectedArduino(g, ok)
               [] g.currentState = "CONNECTING" -> HandleConnectingArduino(g)
               [] g.currentState = "CONNECTED" -> HandleConnectedArduino(g)
               [] g.currentState = "ERROR" -> HandleError(g)
    IN  IF h.currentState = "CONNECTED" /\ h.millis - h.lastActivity > TCP_TIMEOUT
        THEN [SetState(DisconnectTCP(h), "DISCONNECTED") EXCEPT !.forced = TRUE]
        ELSE h

(* the sketch "solar" *)
\* a handleDisconnected() that starts the attempt and returns before its
\* result is known
HandleDisconnectedPending(g, ok) ==
    IF g.wifi
    THEN [SetState(g, "CONNECTING") EXCEPT !.lastActivity = g.millis]
    ELSE g

HandleDisconnectedSolar(g, ok) ==
    IF g.wifi
    THEN LET a == Connect([SetState(g, "CONNECTING") EXCEPT
                              !.lastActivity = g.millis], ok)
         IN  IF ok
             THEN [SetState(a, "CONNECTED") EXCEPT !.lastActivity = g.millis,
                                                  !.lastRelay = g.millis]
             ELSE SetState(a, "DISCONNECTED")
    ELSE \* prints WiFi.status() every five seconds
         g

HandleConnectingSolar(g) ==
    IF g.millis - g.lastActivity > CONNECTING_MS_SOLAR
    THEN SetState(Stop(g), "DISCONNECTED")
    ELSE g

HandleConnectedSolar(g) ==
    IF ~TcpConnected(g) THEN SetState(g, "DISCONNECTED")
    ELSE LET a == RelayTcpToPli(g)
             b == IF a.pliIn # <<>>
                  THEN [TcpWrite([a EXCEPT !.pliIn = Tail(a.pliIn)], Head(a.pliIn))
                           EXCEPT !.lastActivity = g.millis]
                  ELSE a
         IN  IF b.millis - b.lastActivity > ACTIVITY_TIMEOUT
             THEN [SetState(Stop(b), "DISCONNECTED") EXCEPT !.forced = TRUE]
             ELSE b

LoopSolar(g, ok) ==
    CASE g.currentState = "DISCONNECTED" -> HandleDisconnectedSolar(g, ok)
      [] g.currentState = "CONNECTING" -> HandleConnectingSolar(g)
      [] g.currentState = "CONNECTED" -> HandleConnectedSolar(g)
      [] g.currentState = "ERROR" -> HandleError(g)

\* the activity timeout of the sketch
GwTimeout(variant) == IF variant = "arduino" THEN TCP_TIMEOUT ELSE ACTIVITY_TIMEOUT

\* the state of the drivers, which take no part in a behaviour of the gateway
DriverIdle ==
    UNCHANGED <<sockets, socket, reconnectTimer, rtimers, buffer, pending, reqs,
                now, ram, disconnectCalled, isConnected, connects, exited,
                inp, out, tests, emitted, delivered, cb, srv>>

InitGw ==
    /\ sockets = <<>>
    /\ socket = Null
    /\ reconnectTimer = FALSE
    /\ rtimers = 0
    /\ buffer = NewBuffer(DriverBufSize)
    /\ pending = <<>>
    /\ reqs = <<>>
    /\ now = 0
    /\ ram = [a \in Addrs |-> IF a = 50 THEN 138 ELSE 7]
    /\ disconnectCalled = FALSE
    /\ isConnected = FALSE
    /\ connects = <<>>
    /\ exited = FALSE
    /\ inp = [fn |-> "none"]
    /\ out = [done |-> FALSE]
    /\ tests = <<>>
    /\ emitted = <<>>
    /\ delivered = 0
    /\ gw \in {InitialGateway(v) : v \in GwVariants}
    /\ cb = NoBuffer
    /\ srv = NoServer

\* one iteration of loop(), d milliseconds after the previous one; ok is the
\* result of connect() if the iteration calls it
GwLoop(d, ok) ==
    /\ gw.variant \in GwVariants
    /\ gw.loops < MaxLoops
    /\ LET g == [gw EXCEPT !.millis = gw.millis + d, !.changes = <<>>,
                           !.attempt = "none", !.forced = FALSE,
                           !.loops = gw.loops + 1]
       IN  gw' = IF gw.variant = "arduino" THEN LoopArduino(g, ok)
                 ELSE LoopSolar(g, ok)
    /\ DriverIdle

\* a byte of the server arrives on the TCP connection
GwTcpArrive(b) ==
    /\ gw.variant \in GwVariants
    /\ gw.tcp = "open"
    /\ Len(gw.tcpIn) < MaxQueue
    /\ gw' = [gw EXCEPT !.tcpIn = Append(gw.tcpIn, b)]
    /\ DriverIdle

\* a byte of the PLI arrives on the serial line
GwPliArrive(b) ==
    /\ gw.variant \in GwVariants
    /\ Len(gw.pliIn) < MaxQueue
    /\ gw' = [gw EXCEPT !.pliIn = Append(gw.pliIn, b)]
    /\ DriverIdle

\* the server closes the connection
GwPeerClose ==
    /\ gw.variant \in GwVariants
    /\ gw.tcp = "open"
    /\ gw' = [gw EXCEPT !.tcp = "ended"]
    /\ DriverIdle

\* the WiFi association is made or lost; a lost one takes the connection along
GwWifi ==
    /\ gw.variant = "solar"
    /\ gw' = [gw EXCEPT !.wifi = ~gw.wifi,
                        !.tcp = IF gw.wifi /\ gw.tcp = "open" THEN "ended"
                                ELSE gw.tcp]
    /\ DriverIdle

NextGw ==
    \/ \E d \in GwElapsed, ok \in BOOLEAN : GwLoop(d, ok)
    \/ \E b \in GwTcpBytes : GwTcpArrive(b)
    \/ \E b \in GwPliBytes : GwPliArrive(b)
    \/ GwPeerClose
    \/ GwWifi

SpecGw == InitGw /\ [][NextGw]_vars

(***************************************************************************)
(* The CircularBuffer on its own.  cb.kind is "driver" for the class of    *)
(* src/driver/pli-driver.js (the module the drivers require) and "server"  *)
(* for the class of the TCP server.  cb.b is the buffer, written the bytes *)
(* written so far, got the bytes readByte() / read() has returned, used    *)
(* the methods called so far, within whether the bytes written and not yet *)
(* returned have always been at most size - 1, before and removed the      *)
(* value of count before the last readUntil() and the bytes it removed.    *)
(***************************************************************************)
BufSize == 3        \* capacity of the buffer
MaxOps == 5         \* method calls in one behaviour

BufKinds == {"driver", "server"}
BufBytes == {7, 10}
Delimiters == {10}
BufChunks == {<<x>> : x \in BufBytes} \cup {<<x, y>> : x, y \in BufBytes}

\* the write loop of the server's class: store at head, advance head, and
\* advance tail when the buffer was full
ServerWriteByte(b, byte) ==
    LET stored == [b EXCEPT !.buf[b.head] = byte, !.head = (b.head + 1) % b.size]
    IN  IF stored.count < stored.size
        THEN [stored EXCEPT !.count = stored.count + 1]
        ELSE [stored EXCEPT !.tail = (stored.tail + 1) % stored.size]

RECURSIVE ServerWrite(_, _)
ServerWrite(b, data) ==
    IF data = <<>> THEN b
    ELSE ServerWrite(ServerWriteByte(b, Head(data)), Tail(data))

\* read() of the server's class
ServerReadVal(b) == IF b.count = 0 THEN Null ELSE b.buf[b.tail]

ServerReadBuf(b) ==
    IF b.count = 0 THEN b
    ELSE [b EXCEPT !.tail = (b.tail + 1) % b.size, !.count = b.count - 1]

\* the position at which the scan of readUntil() stops
RECURSIVE ScanUntil(_, _, _)
ScanUntil(b, pos, delimiter) ==
    IF b.buf[pos] = delimiter THEN pos
    ELSE LET next == (pos + 1) % b.size
         IN  IF next = b.head /\ b.buf[next] # delimiter THEN next
             ELSE ScanUntil(b, next, delimiter)

\* readUntil(delimiter): the number of bytes it removes (0 when it returns
\* null) and the buffer afterwards
ReadUntilLength(b, delimiter) ==
    IF b.count = 0 THEN 0
    ELSE LET pos == IF b.count > 0 THEN ScanUntil(b, b.tail, delimiter) ELSE b.tail
         IN  (((pos - b.tail) + b.size) % b.size) + 1

ReadUntilBuf(b, delimiter) ==
    LET length == ReadUntilLength(b, delimiter)
    IN  [b EXCEPT !.tail = (b.tail + length) % b.size, !.count = b.count - length]

\* the bytes the next n calls of readByte() / read() return, up to the
\* first null
RECURSIVE Drain(_, _)
Drain(b, n) ==
    IF n = 0 \/ b.count = 0 THEN <<>>
    ELSE <<b.buf[b.tail]>>
            \o Drain([b EXCEPT !.tail = (b.tail + 1) % b.size,
                               !.count = b.count - 1], n - 1)

InitialBuffer(kind) ==
    [kind |-> kind, b |-> NewBuffer(BufSize), written |-> <<>>, got |-> <<>>,
     used |-> {}, within |-> TRUE, before |-> 0, removed |-> 0, ops |-> 0]

\* a method has been called: the bookkeeping of the calls
Called(c, name) == [c EXCEPT !.used = c.used \cup {name}, !.ops = c.ops + 1]

\* bytes have been written: the bookkeeping of the writes
Wrote(c, data) ==
    [c EXCEPT !.written = c.written \o data,
              !.within = c.within
                  /\ (Len(c.written) + Len(data)) - Len(c.got) <= c.b.size - 1]

\* the state of everything else
BufferOnly ==
    UNCHANGED <<sockets, socket, reconnectTimer, rtimers, buffer, pending, reqs,
                now, ram, disconnectCalled, isConnected, connects, exited,
                inp, out, tests, emitted, delivered, gw, srv>>

InitBuf ==
    /\ sockets = <<>>
    /\ socket = Null
    /\ reconnectTimer = FALSE
    /\ rtimers = 0
    /\ buffer = NewBuffer(DriverBufSize)
    /\ pending = <<>>
    /\ reqs = <<>>
    /\ now = 0
    /\ ram = [a \in Addrs |-> IF a = 50 THEN 138 ELSE 7]
    /\ disconnectCalled = FALSE
    /\ isConnected = FALSE
    /\ connects = <<>>
    /\ exited = FALSE
    /\ inp = [fn |-> "none"]
    /\ out = [done |-> FALSE]
    /\ tests = <<>>
    /\ emitted = <<>>
    /\ delivered = 0
    /\ gw = NoGateway
    /\ cb \in {InitialBuffer(k) : k \in BufKinds}
    /\ srv = NoServer

\* writeByte(byte)
BufWriteByte(byte) ==
    /\ cb.kind = "driver"
    /\ cb.ops < MaxOps
    /\ cb' = [Wrote(Called(cb, "writeByte"), <<byte>>) EXCEPT
                  !.b = WriteByte(cb.b, byte)]
    /\ BufferOnly

\* write(data)
BufWrite(data) ==
    /\ cb.kind \in BufKinds
    /\ cb.ops < MaxOps
    /\ cb' = [Wrote(Called(cb, "write"), data) EXCEPT
                  !.b = IF cb.kind = "driver" THEN Write(cb.b, data)
                        ELSE ServerWrite(cb.b, data)]
    /\ BufferOnly

\* readByte() of the driver's class, read() of the server's
BufReadByte ==
    /\ cb.kind \in BufKinds
    /\ cb.ops < MaxOps
    /\ LET val == IF cb.kind = "driver" THEN ReadByteVal(cb.b)
                  ELSE ServerReadVal(cb.b)
           c == Called(cb, "readByte")
       IN  cb' = [c EXCEPT
                     !.b = IF cb.kind = "driver" THEN ReadByteBuf(cb.b)
                           ELSE ServerReadBuf(cb.b),
                     !.got = IF val = Null THEN c.got ELSE Append(c.got, val)]
    /\ BufferOnly

\* peek()
BufPeek ==
    /\ cb.kind = "driver"
    /\ cb.ops < MaxOps
    /\ cb' = Called(cb, "peek")
    /\ BufferOnly

\* readUntil(delimiter)
BufReadUntil(delimiter) ==
    /\ cb.kind = "driver"
    /\ cb.ops < MaxOps
    /\ cb' = [Called(cb, "readUntil") EXCEPT
                  !.b = ReadUntilBuf(cb.b, delimiter),
                  !.before = cb.b.count,
                  !.removed = ReadUntilLength(cb.b, delimiter)]
    /\ BufferOnly

\* clear()
BufClear ==
    /\ cb.kind = "driver"
    /\ cb.ops < MaxOps
    /\ cb' = [Called(cb, "clear") EXCEPT !.b = Clear(cb.b)]
    /\ BufferOnly

NextBuf ==
    \/ \E x \in BufBytes : BufWriteByte(x)
    \/ \E data \in BufChunks : BufWrite(data)
    \/ BufReadByte
    \/ BufPeek
    \/ \E x \in Delimiters : BufReadUntil(x)
    \/ BufClear

SpecBuf == InitBuf /\ [][NextBuf]_vars

(***************************************************************************)
(* The TCP server the gateway connects to.  srv.server is "none" before    *)
(* start() and after stop(), "starting" until the listen callback has run, *)
(* then "listening".  srv.socks holds, for every connection accepted so    *)
(* far, the state of its socket: "open", "halfopen" (the peer has ended;   *)
(* with allowHalfOpen the socket stays writable), "ending" (the server has *)
(* called end() and the peer has not ended yet), "finished" (both sides    *)
(* have ended, 'close' not emitted yet), "errored" ('error' emitted,       *)
(* 'close' not yet) and "closed".  srv.gatewayClient is the index of the   *)
(* socket the variable refers to, or Null.                                 *)
(***************************************************************************)
MaxConns == 2       \* connections accepted in one behaviour
MaxSends == 1       \* bytes sent by send() in one behaviour
MaxData == 1        \* bytes received in one behaviour

InitialServer ==
    [server |-> "none", isRunning |-> FALSE, socks |-> <<>>,
     gatewayClient |-> Null, connections |-> 0, bytesReceived |-> 0,
     bytesSent |-> 0, errors |-> 0, thrown |-> FALSE, wrote |-> Null]

\* socket.writable
Writable(st) == st \in {"open", "halfopen"}

\* getStats().connected
StatsConnected(v) == v.gatewayClient # Null

\* the state of everything else
ServerOnly ==
    UNCHANGED <<sockets, socket, reconnectTimer, rtimers, buffer, pending, reqs,
                now, ram, disconnectCalled, isConnected, connects, exited,
                inp, out, tests, emitted, delivered, gw, cb>>

InitSrv ==
    /\ sockets = <<>>
    /\ socket = Null
    /\ reconnectTimer = FALSE
    /\ rtimers = 0
    /\ buffer = NewBuffer(DriverBufSize)
    /\ pending = <<>>
    /\ reqs = <<>>
    /\ now = 0
    /\ ram = [a \in Addrs |-> IF a = 50 THEN 138 ELSE 7]
    /\ disconnectCalled = FALSE
    /\ isConnected = FALSE
    /\ connects = <<>>
    /\ exited = FALSE
    /\ inp = [fn |-> "none"]
    /\ out = [done |-> FALSE]
    /\ tests = <<>>
    /\ emitted = <<>>
    /\ delivered = 0
    /\ gw = NoGateway
    /\ cb = NoBuffer
    /\ srv = InitialServer

\* start(), called while no server exists
SrvStart ==
    /\ srv.server = "none"
    /\ ~srv.isRunning
    /\ srv' = [srv EXCEPT !.server = "starting"]
    /\ ServerOnly

\* the callback of server.listen()
SrvListening ==
    /\ srv.server = "starting"
    /\ srv' = [srv EXCEPT !.server = "listening", !.isRunning = TRUE]
    /\ ServerOnly

\* the connection listener of createServer()
SrvConnection ==
    /\ srv.server = "listening"
    /\ Len(srv.socks) < MaxConns
    /\ srv' = [srv EXCEPT !.socks = Append(srv.socks, "open"),
                          !.gatewayClient = Len(srv.socks) + 1,
                          !.connections = srv.connections + 1]
    /\ ServerOnly

\* the 'error' handler of socket i
SocketErrored(v, i) ==
    [v EXCEPT !.socks[i] = "errored", !.errors = v.errors + 1,
              !.gatewayClient = Null]

\* 'data' on socket i; ping says whether the data contains PING, in which
\* case PONG is written, and a write after end() is an error of the socket
SrvData(i, ping) ==
    /\ srv.server # "absent"
    /\ i \in 1..Len(srv.socks)
    /\ srv.socks[i] \in {"open", "ending"}
    /\ srv.bytesReceived < MaxData
    /\ LET v == [srv EXCEPT !.bytesReceived = srv.bytesReceived + 1]
       IN  srv' = IF ping /\ ~Writable(srv.socks[i]) THEN SocketErrored(v, i)
                  ELSE v
    /\ ServerOnly

\* 'end' on socket i: the peer has closed its side
SrvEnd(i) ==
    /\ srv.server # "absent"
    /\ i \in 1..Len(srv.socks)
    /\ srv.socks[i] \in {"open", "ending"}
    /\ srv' = [srv EXCEPT
                  !.socks[i] = IF srv.socks[i] = "open" THEN "halfopen"
                               ELSE "finished",
                  !.gatewayClient = Null]
    /\ ServerOnly

\* 'error' on socket i
SrvError(i) ==
    /\ srv.server # "absent"
    /\ i \in 1..Len(srv.socks)
    /\ srv.socks[i] \in {"open", "halfopen", "ending"}
    /\ srv' = SocketErrored(srv, i)
    /\ ServerOnly

\* 'close' on socket i
SrvClose(i) ==
    /\ srv.server # "absent"
    /\ i \in 1..Len(srv.socks)
    /\ srv.socks[i] \in {"finished", "errored"}
    /\ srv' = [srv EXCEPT !.socks[i] = "closed", !.gatewayClient = Null]
    /\ ServerOnly

\* socket.end()
SocketEnd(st) ==
    CASE st = "open" -> "ending"
      [] st = "halfopen" -> "finished"
      [] OTHER -> st

\* the inactivity timeout of socket i
SrvTimeout(i) ==
    /\ srv.server # "absent"
    /\ i \in 1..Len(srv.socks)
    /\ srv.socks[i] \in {"open", "halfopen"}
    /\ srv' = [srv EXCEPT !.socks[i] = SocketEnd(srv.socks[i])]
    /\ ServerOnly

\* send(data), one byte
SrvSend ==
    /\ srv.server # "absent"
    /\ srv.bytesSent < MaxSends
    /\ srv' = IF srv.gatewayClient = Null
                  \/ ~Writable(srv.socks[srv.gatewayClient])
               THEN [srv EXCEPT !.thrown = TRUE]
               ELSE [srv EXCEPT !.thrown = FALSE,
                                !.wrote = srv.gatewayClient,
                                !.bytesSent = srv.bytesSent + 1]
    /\ ServerOnly

\* stop(), called on a running server
SrvStop ==
    /\ srv.server = "listening"
    /\ srv' = [srv EXCEPT
                  !.socks = IF srv.gatewayClient = Null THEN srv.socks
                            ELSE [srv.socks EXCEPT ![srv.gatewayClient] =
                                     SocketEnd(srv.socks[srv.gatewayClient])],
                  !.gatewayClient = Null,
                  !.server = "none",
                  !.isRunning = FALSE]
    /\ ServerOnly

NextSrv ==
    \/ SrvStart
    \/ SrvListening
    \/ SrvConnection
    \/ \E i \in 1..MaxConns, ping \in BOOLEAN : SrvData(i, ping)
    \/ \E i \in 1..MaxConns : SrvEnd(i)
    \/ \E i \in 1..MaxConns : SrvError(i)
    \/ \E i \in 1..MaxConns : SrvClose(i)
    \/ \E i \in 1..MaxConns : SrvTimeout(i)
    \/ SrvSend
    \/ SrvStop

SpecSrv == InitSrv /\ [][NextSrv]_vars

(***************************************************************************)
(* One sequential batch on the driver: readBatch(addresses), which catches *)
(* the rejection of a read and goes on, or getAll(), which awaits the six  *)
(* accessors in turn and is rejected by the first read that rejects.  inp  *)
(* holds the call: its method, the addresses its reads are made with, and  *)
(* next, the index of the read it makes next.  The link stays up.          *)
(***************************************************************************)
\* the addresses getAll() of a driver passes to read(), as the command
\* carries them
GetAllAddrs(driver) ==
    [k \in 1..Len(AccessorKeys) |-> CoerceByte(AccessorAddr(driver, k))]

BatchAddrs == {GetAllAddrs("part_003")[k] : k \in 1..Len(AccessorKeys)} \cup Addrs

BatchCalls ==
    {[fn |-> "batch", method |-> "getAll", addresses |-> GetAllAddrs("part_003"),
      next |-> 1]}
    \cup {[fn |-> "batch", method |-> "readBatch", addresses |-> a, next |-> 1] :
             a \in UNION {[1..k -> Addrs] : k \in 1..MaxBatch}
                      \cup {GetAllAddrs("part_003")}}

\* a batch that issues its reads without awaiting them
AwaitedAlways(q) == TRUE

\* await: the loop goes on once the promise of the read it made last is
\* settled
Awaited(q) == IF q = <<>> THEN TRUE ELSE q[Len(q)].status # "unsettled"

\* getAll() has no try/catch: a read that rejects ends it
Aborted(call, q) ==
    /\ call.method = "getAll"
    /\ \E r \in 1..Len(q) : q[r].status \notin {"unsettled", "resolved"}

InitBatch ==
    /\ sockets = <<NewSocket>>
    /\ socket = 1
    /\ reconnectTimer = FALSE
    /\ rtimers = 0
    /\ buffer = NewBuffer(DriverBufSize)
    /\ pending = <<>>
    /\ reqs = <<>>
    /\ now = 0
    /\ ram = [a \in BatchAddrs |-> IF a = 50 THEN 138 ELSE 7]
    /\ disconnectCalled = FALSE
    /\ isConnected = FALSE
    /\ connects = <<>>
    /\ exited = FALSE
    /\ inp \in BatchCalls
    /\ out = [done |-> FALSE]
    /\ tests = <<>>
    /\ emitted = <<>>
    /\ delivered = 0
    /\ gw = NoGateway
    /\ cb = NoBuffer
    /\ srv = NoServer

\* the next read of the batch: the loop goes on in the microtask that
\* follows the settlement, with no time passing
BatchRead(timeout) ==
    /\ inp.fn = "batch"
    /\ inp.next <= Len(inp.addresses)
    /\ Awaited(reqs)
    /\ ~Aborted(inp, reqs)
    /\ ReadCall(inp.addresses[inp.next], timeout, 0)
    /\ inp' = [inp EXCEPT !.next = inp.next + 1]
    /\ UNCHANGED out

NextBatch ==
    \/ \E s \in 1..MaxSockets : OnConnect(s)
    \/ \E s \in 1..MaxSockets, n \in 1..MaxChunk : OnData(s, n)
    \/ \E s \in 1..MaxSockets : DeviceReply(s)
    \/ \E t \in Timeouts : BatchRead(t)
    \/ \E r \in 1..Len(AccessorKeys) : Timeout(r)

SpecBatch == InitBatch /\ [][NextBatch]_vars

(***************************************************************************)
(* Properties.                                                             *)
(***************************************************************************)
\* C1: when the driver is connected, the receive buffer is empty and exactly
\* one read is pending, a 'data' event carrying the two bytes [0xC8, v]
\* resolves that read with v.
C1_SingleFlightCorrelation ==
    [][\A v \in Vals :
          (/\ Connected
           /\ Available(buffer) = 0
           /\ Len(pending) = 1
           /\ reqs[pending[1].req].status = "unsettled"
           /\ sockets[socket].inb = <<PREFIX, v>>
           /\ OnData(socket, 2))
          => (/\ reqs'[pending[1].req].status = "resolved"
              /\ reqs'[pending[1].req].value = v)]_vars

\* C2: at every moment at most one read request is unresolved; a read()
\* called while another is pending is not put in the pending set (nor its
\* command written) before the one in flight has settled.
C2_SingleInFlight ==
    (\A r \in 1..Len(reqs) : reqs[r].open) =>
        /\ Cardinality(Unsettled) <= 1
        /\ Len(pending) <= 1

\* C3: every issued read has its own pending entry until it is settled, is
\* settled by exactly one call of resolve or reject, and an entry is only
\* ever removed for the request it was created for.
C3_OwnEntrySettledOnce ==
    (\A r \in 1..Len(reqs) : reqs[r].open) =>
        /\ \A r \in 1..Len(reqs) :
              /\ reqs[r].calls <= 1
              /\ reqs[r].status = "unsettled" =>
                    \E i \in 1..Len(pending) : pending[i].req = r
        /\ \A i \in 1..Len(pending) : reqs[pending[i].req].status = "unsettled"

\* C4: a read whose timeout has expired is settled (resolved before the
\* expiry, or rejected by it) and has no entry left in the pending set.
C4_TimeoutCleanup ==
    \A r \in 1..Len(reqs) :
        reqs[r].open /\ reqs[r].timer = "fired" =>
            /\ reqs[r].status \in {"resolved", "timeout"}
            /\ \A i \in 1..Len(pending) : pending[i].req # r

\* C5: a Data frame that answers a read which has timed out is dropped: when
\* the caller issues its reads one after the other (each after the previous
\* one has settled), a read is only ever resolved with the answer to its own
\* command, the content of the RAM at its address.
C5_LateFrameDropped ==
    (\A r \in 1..Len(reqs) : reqs[r].open /\ reqs[r].inflight = 0) =>
        \A r \in 1..Len(reqs) :
            reqs[r].status = "resolved" => reqs[r].value = ram[reqs[r].addr]

\* C6: when the channel closes, every pending read is rejected with a
\* connection-lost failure and the pending set becomes empty.
C6_CloseRejectsPending ==
    [][((\A r \in 1..Len(reqs) : reqs[r].open)
           /\ \E s \in 1..MaxSockets : OnClose(s)) =>
          /\ pending' = <<>>
          /\ \A r \in 1..Len(reqs) : reqs'[r].status # "unsettled"]_vars

\* C7: once disconnect() has been called, no reconnect timer is armed in any
\* later state and no further socket is created.
C7_DisconnectStopsRetries ==
    [][disconnectCalled' =>
          /\ rtimers' = 0
          /\ ~reconnectTimer'
          /\ (disconnectCalled => Len(sockets') = Len(sockets))]_vars

\* C8: at most one reconnect timer is armed at any time, it is the one
\* this.reconnectTimer holds, and the sockets created after the first never
\* outnumber the 'close' events handled.
NumClosed == Cardinality({s \in 1..Len(sockets) : sockets[s].st = "closed"})

C9_EventuallyReconnects ==
    [](((\E s \in 1..Len(sockets) : sockets[s].st = "closed")
           /\ ~disconnectCalled)
        => <>(disconnectCalled
                 \/ \E s \in 1..Len(sockets) : sockets[s].st = "connecting"))

\* C10: read() called while the channel is not open is rejected with a
\* connection error, writes no command, adds no pending entry and arms no
\* timer.
C10_ReadWhenNotOpen ==
    [][\A a \in Addrs, t \in Timeouts, d \in Elapsed :
          (~Connected /\ Read(a, t, d)) =>
             /\ reqs'[Len(reqs')].status = "not_connected"
             /\ reqs'[Len(reqs')].timer = "none"
             /\ pending' = pending
             /\ sockets' = sockets]_vars

\* C11: connect() called while a connection is open or still being opened
\* creates no second socket, and disconnect() called on a driver that has
\* just been disconnected changes nothing.
C11_LifecycleIdempotent ==
    [][/\ (/\ socket # Null
           /\ sockets[socket].st \in {"connecting", "open"}
           /\ ConnectB) => sockets' = sockets
       /\ (/\ socket = Null
           /\ ~isConnected
           /\ DisconnectB) =>
              UNCHANGED <<sockets, socket, isConnected, buffer, pending>>]_vars

\* C12: readBatch() returns (it never rejects) a mapping with an entry for
\* each requested address, holding the byte its last read gave or null when
\* that read failed, and it has attempted a read for every address of the
\* list, in order, whatever the outcomes of the earlier reads.
C12_ReadBatchNeverRejects ==
    Returned("readBatch") =>
        /\ out.ret.status = "returned"
        /\ DOMAIN out.ret.results =
              {inp.addresses[i] : i \in 1..Len(inp.addresses)}
        /\ out.ret.attempted = inp.addresses
        /\ \A i \in 1..Len(inp.addresses) :
              (\A j \in (i + 1)..Len(inp.addresses) :
                    inp.addresses[j] # inp.addresses[i])
                 => out.ret.results[inp.addresses[i]] =
                       (IF inp.outcomes[i].kind = "value"
                        THEN inp.outcomes[i].value ELSE Null)

\* a batch of two addresses whose first read timed out and whose second read
\* gave a byte
C12_Witness ==
    /\ Returned("readBatch")
    /\ Len(inp.addresses) = 2
    /\ inp.addresses[1] # inp.addresses[2]
    /\ inp.outcomes[1].kind = "timeout"
    /\ inp.outcomes[2].kind = "value"
    /\ out.ret.results[inp.addresses[1]] = Null
    /\ out.ret.results[inp.addresses[2]] = inp.outcomes[2].value

C14_WireBytesAsDocumented ==
    \A s \in 1..Len(sockets) :
        \A i \in 1..Len(sockets[s].out) :
            sockets[s].st = "open" =>
            /\ sockets[s].out[i][4] = 255 - sockets[s].out[i][1]
            /\ sockets[s].out[i][2] = 50 => sockets[s].out[i] = <<20, 50, 0, 235>>

\* C15: for every pointer in 0..29 and every day in 1..30 the offset of the
\* day lies in [logStart, logStart + 210); pointer 2 gives 60 for day 1 and
\* 207 for day 10.
C15_HistoryOffsetBounds ==
    Returned("historyOffset") =>
        /\ out.ret >= 46
        /\ out.ret < 46 + 210
        /\ (inp.pointer = 2 /\ inp.day = 1) => out.ret = 60
        /\ (inp.pointer = 2 /\ inp.day = 10) => out.ret = 207

\* the offset of day 10 with pointer 2, which wraps around
C15_Witness ==
    /\ Returned("historyOffset")
    /\ inp.pointer = 2
    /\ inp.day = 10
    /\ out.ret = 207

\* C16: parseDayRecord gives chargeAh = b4 + 256 * (low nibble of b6),
\* loadAh = b5 + 256 * (high nibble of b6), both in 0..4095, and soc = b3;
\* the record [10,20,30,40,50,60,0x13] gives chargeAh 818 and loadAh 316.
C16_NibbleReconstruction ==
    Returned("parseDayRecord") =>
        /\ out.ret.chargeAh = inp.data[5] + ((inp.data[7] % 16) * 256)
        /\ out.ret.loadAh = inp.data[6] + ((inp.data[7] \div 16) * 256)
        /\ out.ret.chargeAh \in 0..4095
        /\ out.ret.loadAh \in 0..4095
        /\ out.ret.soc = inp.data[4]
        /\ inp.data = <<10, 20, 30, 40, 50, 60, 19>> =>
              (out.ret.chargeAh = 818 /\ out.ret.loadAh = 316)

\* the record of the example has been parsed
C16_Witness ==
    /\ Returned("parseDayRecord")
    /\ inp.data = <<10, 20, 30, 40, 50, 60, 19>>
    /\ out.ret.chargeAh = 818
    /\ out.ret.loadAh = 316
    /\ out.ret.soc = 40

\* C17: readHistory returns the 30 days in order whatever reads fail: a day
\* whose reads all succeed is reported with its parsed record, also when
\* the reads of an earlier day have failed.
C17_HistoryIsolatesFailures ==
    (Returned("readHistory") /\ 0 \notin inp.failing) =>
        /\ out.ret.status = "returned"
        /\ Len(out.ret.history) = 30
        /\ \A d \in (1..30) \ inp.failing :
              out.ret.history[d] =
                 ParseDayRecord(ReadBytes(HistoryOffset(inp.pointer, d), 7),
                                inp.ratio)

\* C18: for every raw byte, battery temperature decodes to raw - 100, state
\* of charge to raw, solar voltage to raw * 0.5 and charge current to
\* raw * 0.1 / 0.2 / 0.4 for PL20 / PL40 / PL60, in both drivers (values
\* with a decimal factor in tenths); temp(80) = -20, solar(37) = 18.5,
\* current(21, PL40) = 4.2.
C18_ScalingFormulas ==
    /\ Returned("getBatteryTemp") =>
          (out.ret.temp + 100 = inp.raw /\ (inp.raw = 80 => out.ret.temp = -20))
    /\ Returned("readBatteryTemp") =>
          (out.ret + 100 = inp.raw /\ (inp.raw = 80 => out.ret = -20))
    /\ Returned("getSOC") => out.ret.soc = inp.raw
    /\ Returned("readSOC") => out.ret = inp.raw
    /\ Returned("getSolarVoltage") =>
          (2 * out.ret.voltage = 10 * inp.raw
              /\ (inp.raw = 37 => out.ret.voltage = 185))
    /\ Returned("readSolarVoltage") =>
          (2 * out.ret = 10 * inp.raw /\ (inp.raw = 37 => out.ret = 185))
    /\ Returned("getChargeCurrent") =>
          /\ inp.model = "PL20" => out.ret.current = inp.raw
          /\ inp.model = "PL40" => out.ret.current = inp.raw + inp.raw
          /\ inp.model = "PL60" => out.ret.current = 4 * inp.raw
          /\ (inp.model = "PL40" /\ inp.raw = 21) => out.ret.current = 42
    /\ Returned("readChargeCurrent") =>
          /\ inp.model = "PL20" => out.ret = inp.raw
          /\ inp.model = "PL40" => out.ret = inp.raw + inp.raw
          /\ inp.model = "PL60" => out.ret = 4 * inp.raw
          /\ (inp.model = "PL40" /\ inp.raw = 21) => out.ret = 42

\* the charge current of a PL60 has been decoded
C18_Witness ==
    /\ Returned("getChargeCurrent")
    /\ inp.model = "PL60"
    /\ inp.raw = 21
    /\ out.ret.current = 84

\* C19: the battery-voltage accessor returns raw * systemVoltageRatio for
\* the ratios 1, 2 and 4.
C19_BatteryVoltageRatio ==
    /\ Returned("getBatteryVoltage") => out.ret.voltage = inp.raw * inp.ratio
    /\ Returned("readBatteryVoltage") => out.ret = inp.raw * inp.ratio

\* C20: in both drivers the raw codes 0..7 decode to BOOST, EQUALIZE,
\* ABSORPTION, FLOAT, RESTRICTED, LVD, SHORT_EQ, UNDEFINED and every other
\* byte to UNKNOWN.
C20_StateDecoding ==
    LET expected ==
            IF inp.raw \in 0..7
            THEN <<"BOOST", "EQUALIZE", "ABSORPTION", "FLOAT", "RESTRICTED",
                   "LVD", "SHORT_EQ", "UNDEFINED">>[inp.raw + 1]
            ELSE "UNKNOWN"
    IN  /\ Returned("getState") => out.ret.state = expected
        /\ Returned("readState") => out.ret.name = expected

\* C21: test() reports true only if the channel was open when it sent the
\* loopback command and the loopback reply (code 128) has been received
\* since; with no reply, or with the channel not open, it does not report
\* true.
C21_LoopbackSelfTest ==
    \A t \in 1..Len(tests) :
        tests[t].status = "true" =>
            /\ tests[t].open
            /\ delivered > tests[t].mark

\* C22: a data prefix that is the last byte available when a chunk is
\* processed is left in the buffer: when the buffer is empty and the chunk
\* [0xC8] arrives ahead of its value, the handler keeps the prefix as the
\* only available byte and settles nothing.
C22_PartialFrameRetained ==
    [][\A v \in Vals :
          (/\ Connected
           /\ Available(buffer) = 0
           /\ sockets[socket].inb = <<PREFIX, v>>
           /\ OnData(socket, 1))
          => (/\ Available(buffer') = 1
              /\ Peek(buffer') = PREFIX
              /\ pending' = pending
              /\ reqs' = reqs)]_vars

\* the chunk holds exactly k Data frames
IsDataFrames(data, k) ==
    /\ Len(data) = 2 * k
    /\ \A i \in 1..k : data[(2 * i) - 1] = PREFIX

\* C23: k Data frames delivered while k or more reads are pending resolve
\* the k oldest pending reads, in issue order, each with the value of its
\* frame whatever the address it was issued for, and settle no other read.
C23_OldestPendingResolved ==
    [][\A k \in 1..MaxReads :
          (/\ Connected
           /\ Available(buffer) = 0
           /\ Len(pending) >= k
           /\ \A i \in 1..Len(pending) :
                 reqs[pending[i].req].status = "unsettled"
           /\ IsDataFrames(sockets[socket].inb, k)
           /\ OnData(socket, 2 * k))
          => (/\ \A i \in 1..k :
                    /\ reqs'[pending[i].req].status = "resolved"
                    /\ reqs'[pending[i].req].value = sockets[socket].inb[2 * i]
              /\ \A r \in 1..Len(reqs) :
                    (\A i \in 1..k : pending[i].req # r) => reqs'[r] = reqs[r]
              /\ pending' = SubSeq(pending, k + 1, Len(pending)))]_vars

\* C24: a chunk is classified completely by the handler call that receives
\* it: when the buffer is empty and a chunk of whole Data frames arrives,
\* no byte of it is left in the buffer when the handler returns.
C24_ChunkClassifiedCompletely ==
    [][\A k \in 1..MaxReads :
          (/\ Connected
           /\ Available(buffer) = 0
           /\ IsDataFrames(sockets[socket].inb, k)
           /\ OnData(socket, 2 * k))
          => Available(buffer') = 0]_vars

\* C25: an Error frame is consumed and reported by the handler call that
\* receives it and settles no read; a Data frame that follows it in the
\* chunk resolves the oldest pending read.
C25_ErrorFrameLeavesPending ==
    [][/\ (/\ Connected
           /\ Available(buffer) = 0
           /\ sockets[socket].inb = <<LOOPBACK_OK>>
           /\ OnData(socket, 1))
          => (/\ emitted' = Append(emitted, LOOPBACK_OK)
              /\ Available(buffer') = 0
              /\ pending' = pending
              /\ reqs' = reqs)
       /\ \A v \in Vals :
          (/\ Connected
           /\ Available(buffer) = 0
           /\ pending # <<>>
           /\ reqs[pending[1].req].status = "unsettled"
           /\ sockets[socket].inb = <<LOOPBACK_OK, PREFIX, v>>
           /\ OnData(socket, 3))
          => (/\ emitted' = Append(emitted, LOOPBACK_OK)
              /\ reqs'[pending[1].req].status = "resolved"
              /\ reqs'[pending[1].req].value = v
              /\ pending' = Tail(pending))]_vars

\* C26: a noise byte that precedes a Data frame is discarded without
\* settling or reporting anything, and the Data frame [0xC8, v] behind it
\* resolves the pending read with v.
C26_Resynchronisation ==
    [][\A v \in Vals :
          (/\ Connected
           /\ Available(buffer) = 0
           /\ Len(pending) = 1
           /\ reqs[pending[1].req].status = "unsettled"
           /\ sockets[socket].inb = <<NOISE, PREFIX, v>>
           /\ OnData(socket, 3))
          => (/\ reqs'[pending[1].req].status = "resolved"
              /\ reqs'[pending[1].req].value = v
              /\ pending' = <<>>
              /\ emitted' = emitted)]_vars

\* C27: at any time at most one socket created by the driver is connecting
\* or connected.
C27_AttemptsNeverOverlap ==
    Cardinality({s \in 1..Len(sockets) :
                    sockets[s].st \in {"connecting", "open"}}) <= 1

\* C30: read() empties the receive buffer before it transmits its command:
\* when read() returns on an open channel the buffer is in the state
\* clear() leaves it in.
C30_BufferClearedBeforeCommand ==
    [][\A a \in Addrs, t \in Timeouts, d \in Elapsed :
          (Connected /\ Read(a, t, d)) => buffer' = Clear(buffer)]_vars

\* C28: the gateway starts in Disconnected; every change of currentState is
\* Disconnected -> Connecting, Connecting -> Connected, Connecting ->
\* Disconnected, Connected -> Disconnected or Error -> Disconnected, and
\* Connected is entered only from Connecting after connect() has succeeded.
C28_GatewayTransitions ==
    /\ gw.loops = 0 => gw.currentState = "DISCONNECTED"
    /\ \A i \in 1..Len(gw.changes) :
          /\ gw.changes[i] \in {<<"DISCONNECTED", "CONNECTING">>,
                                <<"CONNECTING", "CONNECTED">>,
                                <<"CONNECTING", "DISCONNECTED">>,
                                <<"CONNECTED", "DISCONNECTED">>,
                                <<"ERROR", "DISCONNECTED">>}
          /\ gw.changes[i][2] = "CONNECTED" =>
                (gw.changes[i][1] = "CONNECTING" /\ gw.attempt = "ok")

\* an iteration of loop() has opened the connection
C28_Witness ==
    /\ gw.changes = <<<<"DISCONNECTED", "CONNECTING">>,
                      <<"CONNECTING", "CONNECTED">>>>
    /\ gw.attempt = "ok"
    /\ gw.currentState = "CONNECTED"

\* C29: while the gateway is Connected no more than the activity timeout
\* has passed since the last byte was relayed (or the connection opened),
\* and the connection is force-closed on the timeout only when more than
\* the timeout has passed since then.
C29_ActivityTimeout ==
    /\ gw.currentState = "CONNECTED" =>
          gw.millis - gw.lastRelay <= GwTimeout(gw.variant)
    /\ gw.forced =>
          (/\ gw.currentState = "DISCONNECTED"
           /\ gw.millis - gw.lastRelay > GwTimeout(gw.variant))

\* C31: the command each accessor of each driver writes is a RAM read of
\* the documented register: battery voltage 50, temperature 52, SOC 181,
\* solar voltage 53, charge current 212, state 101.
C31_AccessorAddresses ==
    Returned("readCommand") =>
        /\ out.ret[1] = 20
        /\ out.ret[2] = <<50, 52, 181, 53, 212, 101>>[inp.accessor]

\* C35: for every pointer the offsets of the days 1..30 are pairwise
\* distinct and are the thirty slots 46 + 7k (k in 0..29); day 1 is slot
\* k = pointer and each following day the cyclically preceding slot; no
\* byte of a record lies above address 255.
C35_HistorySlots ==
    Returned("historyOffsets") =>
        /\ \A d, e \in 1..30 : out.ret[d] = out.ret[e] => d = e
        /\ {out.ret[d] : d \in 1..30} = {46 + (7 * k) : k \in 0..29}
        /\ out.ret[1] = 46 + (7 * inp.pointer)
        /\ \A d \in 1..29 :
              out.ret[d + 1] = IF out.ret[d] = 46 THEN 46 + (7 * 29)
                               ELSE out.ret[d] - 7
        /\ \A d \in 1..30 : out.ret[d] + 6 <= 255

\* the offsets for pointer 2: day 3 is the lowest slot and day 4 the highest
C35_Witness ==
    /\ Returned("historyOffsets")
    /\ inp.pointer = 2
    /\ out.ret[1] = 60
    /\ out.ret[3] = 46
    /\ out.ret[4] = 249

\* C32: when only writes have been made and the buffer is full, writing a
\* byte discards the oldest unread byte and stores the new one: the bytes
\* the buffer yields afterwards are those it yielded before without the
\* first, followed by the new byte.
C32_OverflowOverwritesTail ==
    [][\A x \in BufBytes :
          (/\ cb.kind \in BufKinds
           /\ cb.used \subseteq {"write", "writeByte"}
           /\ cb.b.count = cb.b.size
           /\ (BufWrite(<<x>>) \/ BufWriteByte(x)))
          => Drain(cb'.b, BufSize) = Append(Tail(Drain(cb.b, BufSize)), x)]_vars

\* C33: for every interleaving of write, writeByte and readByte on the
\* driver's buffer that never holds more than size - 1 unread bytes, the
\* non-null values readByte has returned are the first bytes written, in
\* the order they were written.
C33_BufferIsFifo ==
    (/\ cb.kind = "driver"
     /\ cb.used \subseteq {"write", "writeByte", "readByte"}
     /\ cb.within)
        => (/\ Len(cb.got) <= Len(cb.written)
            /\ cb.got = SubSeq(cb.written, 1, Len(cb.got)))

\* C38: on the driver's buffer count stays in 0..size, head and tail in
\* 0..size-1, count is the number of further readByte calls that return a
\* byte, and readUntil removes no more bytes than count reported.
C38_BufferInvariants ==
    cb.kind = "driver" =>
        /\ cb.b.count \in 0..cb.b.size
        /\ cb.b.head \in 0..(cb.b.size - 1)
        /\ cb.b.tail \in 0..(cb.b.size - 1)
        /\ Len(Drain(cb.b, BufSize + 1)) = cb.b.count
        /\ cb.removed <= cb.before

\* C36: while the gateway is Connected and its TCP connection is open, an
\* iteration of loop() that finds a byte waiting on the PLI side writes
\* that byte to the TCP connection, and one that finds a byte waiting on
\* the TCP side writes that byte to the PLI, whatever the byte is.
C36_TransparentRelay ==
    [][\A d \in GwElapsed, ok \in BOOLEAN :
          (/\ gw.variant \in GwVariants
           /\ gw.currentState = "CONNECTED"
           /\ gw.tcp = "open"
           /\ GwLoop(d, ok))
          => (/\ gw.pliIn # <<>> =>
                    gw'.toTcp = Append(gw.toTcp, Head(gw.pliIn))
              /\ gw.tcpIn # <<>> =>
                    gw'.toPli = Append(gw.toPli, Head(gw.tcpIn)))]_vars

\* C39: in both sketches currentState is never STATE_ERROR, neither
\* between iterations of loop() nor inside one, and never STATE_CONNECTING
\* when an iteration starts, so loop() never dispatches to handleError or
\* handleConnecting.
C39_ErrorAndConnectingUnused ==
    gw.variant \in GwVariants =>
        /\ gw.currentState \in {"DISCONNECTED", "CONNECTED"}
        /\ \A i \in 1..Len(gw.changes) :
              gw.changes[i][1] # "ERROR" /\ gw.changes[i][2] # "ERROR"

\* an iteration of loop() has passed through STATE_CONNECTING and its
\* attempt has failed
C39_Witness ==
    /\ gw.changes = <<<<"DISCONNECTED", "CONNECTING">>,
                      <<"CONNECTING", "DISCONNECTED">>>>
    /\ gw.attempt = "failed"
    /\ gw.currentState = "DISCONNECTED"

\* C37: whenever a socket accepted by the TCP server is open,
\* getStats().connected is true and the socket send() would write to is an
\* open one: the events of an older connection never clear the reference
\* to a newer open connection.
C37_NewerConnectionKept ==
    (/\ srv.server \in {"none", "starting", "listening"}
     /\ \E i \in 1..Len(srv.socks) : srv.socks[i] = "open")
        => (/\ StatsConnected(srv)
            /\ srv.socks[srv.gatewayClient] = "open")

\* C34: while the only reads are those of one readBatch() or getAll(), at
\* most one entry is pending and at most one read is unsettled, every read
\* is made when all earlier ones are settled, and the reads are made in
\* the order of the address list.
C34_BatchIsSequential ==
    inp.fn = "batch" =>
        /\ Len(pending) <= 1
        /\ Cardinality(Unsettled) <= 1
        /\ Len(reqs) = inp.next - 1
        /\ \A r \in 1..Len(reqs) :
              /\ reqs[r].addr = inp.addresses[r]
              /\ reqs[r].inflight = 0

\* readBatch() over the six addresses of the accessors has made its six
\* reads, the first has timed out and the last is resolved
C34_Witness ==
    /\ inp.fn = "batch"
    /\ inp.method = "readBatch"
    /\ Len(reqs) = Len(AccessorKeys)
    /\ reqs[1].status = "timeout"
    /\ reqs[Len(reqs)].status = "resolved"
====
